---- MODULE Spec2Model ----
(***************************************************************************)
(* Terarchitect agent orchestration: the Director context compactor, the   *)
(* coordinator's claim/run loop, the Director/Worker session and the       *)
(* in-process agent queue with the PR review poller.                       *)
(*                                                                         *)
(* Each component has its own variables, initial predicate and next-state  *)
(* relation; a specification runs one component and leaves the others at   *)
(* their initial values.                                                   *)
(***************************************************************************)
EXTENDS Integers, Sequences, FiniteSets, TLC

VARIABLES
    \* ---- Context compactor (_compact_director_messages) ----
    cIn,        \* director_messages as passed by the caller
    cOut,       \* the local list `out`
    cSystem,    \* system_msg
    cNewUser,   \* new_user_msg
    cLimit,     \* token_limit
    cTiktoken,  \* TRUE when the tiktoken import works, FALSE for the 4-chars fallback
    cPc,        \* "loop" while inside `while True`, "done" after return
    cSteps,     \* number of _summarize_director_messages calls made so far
    \* ---- Coordinator (coordinator/__main__.py) and the job store it talks to ----
    coEnvMax,   \* env_max_concurrent
    coMax,      \* max_concurrent
    coPc,       \* position in main()'s while loop: "reap", "fetch", "claim", "sleep"
    coRunning,  \* the list `running` (one thread per claimed job)
    coAlive,    \* threads for which is_alive() holds
    jobs,       \* job store: job id -> [status, mode]
    coExit,     \* job id -> how the job's run ended ("none" while not ended)
    coRanOn,    \* job id -> sequence of places the job was run on
    coReports,  \* job id -> sequence of mark_complete / mark_fail calls made for it
    coImages,   \* job ids whose image tag _save_project_image has written
    \* ---- Session: MiddleAgent.process_ticket / process_ticket_review ----
    sKind,      \* "ticket", "setup" (title "Project setup") or "review"
    sPc,        \* position in the flow
    sEnd,       \* how the call ended: "none" while running
    sCancel,    \* _active_sessions[ticket.id]["cancel"]
    sTurn,      \* the loop variable `turn` of the loop the session is in
    sResp,      \* agent_response of the last _agent_assess
    sPrompt,    \* next_prompt about to be sent: "none", "director" or "synthetic"
    sPlan,      \* where approved_plan_text came from ("" while empty)
    sCol,       \* ticket.column_id
    sHasPr,     \* a PR row with pr_url exists for the ticket
    sExecTurns, \* worker turns issued inside the execution loop
    sAccepted,  \* a complete verdict was accepted
    sObserved,  \* the session read the cancel flag as set
    sEffects,   \* what the session has done so far
    sAfterObs,  \* what the session did after it observed the cancel flag
    sLast,      \* how the last worker or Director call ended
    sSince,     \* worker calls started since the cancel flag was set
    sReq,       \* what became of the cancel requests made through the API
    sPolled,    \* the cancel flag was read since the last worker call
    sFile,      \* the plan file when plan review ended: "unread", "empty" or "text"
    sMem,       \* the last memory retrieval or indexing of the step just taken
    sHist,      \* worker calls made, prompt_history and conversation_history
    \* ---- In-process queue, runner, poller (routes.py) ----
    qQueue,     \* _agent_queue
    qKeys,      \* _agent_queue_keys
    rPc,        \* the runner: "idle", "mark", "release"
    rJob,       \* the job the runner took from the queue
    rPosted,    \* the review job the runner holds posted its reply on the PR
    tCol,       \* Ticket.column_id
    tPr,        \* the ticket has a PR row with a pr_number
    rows,       \* pr_review_comments by github_comment_id
    ghBody,     \* GitHub: the body of each comment ("none": not posted)
    ghState,    \* GitHub: each PR "open", "merged" or "approved"
    ghTs,       \* GitHub: created_at / submitted_at of each comment as parsed (0: None)
    pPc,        \* the poller: "idle", "pr", "trigger", "prEnd"
    pLogin,     \* gh_login of the cycle was resolved
    pTodo,      \* tickets of prs_in_review not yet processed
    pCur,       \* the ticket being processed
    pNext,      \* next_comment (0: None)
    pEnq,       \* the pass over the current PR has put a job
    pWrote,     \* the pass over the current PR has changed a row
    pFault,     \* a gh call or a commit failed in the pass over the current PR
    pTaint,     \* what happened to the current PR since its pass began
    gPrev,      \* per PR: the last pass over it, if the PR is unchanged since
    gEnq,       \* comments a review job has been put for
    nGh,        \* GitHub events so far
    \* ---- Job store and its callers (claim_job, mark_complete, mark_fail) ----
    stJobs,     \* agent_jobs: job id -> [status, project]
    stGot,      \* claimant -> the job ids claim_job has returned to it
    stReported, \* job ids a claimant has called mark_complete / mark_fail for
    stLast,     \* the last call made to the store and what its caller saw of it
    \* ---- The Director conversation of one loop (_agent_assess, call after call) ----
    dPhase,     \* the `phase` argument: "execution", or "none" (the review loop)
    dPlan,      \* approved_plan_text is non-empty
    dTurn,      \* the number of the _agent_assess call
    dReq,       \* messages_for_api of the last request
    \* ---- One call of fetch_max_concurrent ----
    fResp,      \* what GET /api/settings answered
    fFallback,  \* the `fallback` argument
    fOut,       \* the value returned (0 before the return)
    \* ---- Worker adapter (_send_to_worker_opencode) ----
    wRec,       \* self._worker_sessions: orchestration session id -> native id (0: none)
    wLast,      \* the last call: its arguments, its command line, what it found
    wCalls,     \* calls made so far
    rjJob,      \* one job thread: the claimed job's payload
    rjRanOn,    \* one job thread: the places the agent was run on
    rjEnv,      \* one job thread: the environment handed to the agent
    ptTick,     \* ticket updates: flips at every PATCH request handled
    ptLast,     \* ticket updates: the last PATCH request and its status
    lkHolder,   \* _agent_run_lock: the thread that holds it (0: unlocked)
    lkPc,       \* each thread in _run_one_agent_job: where it is
    lkKind      \* each thread: the kind of the job it was called with

compVars == <<cIn, cOut, cSystem, cNewUser, cLimit, cTiktoken, cPc, cSteps>>

coordVars == <<coEnvMax, coMax, coPc, coRunning, coAlive, jobs,
               coExit, coRanOn, coReports, coImages>>

sessVars == <<sKind, sPc, sEnd, sCancel, sTurn, sResp, sPrompt, sPlan, sCol, sHasPr,
              sExecTurns, sAccepted, sObserved, sEffects, sAfterObs,
              sLast, sSince, sReq, sPolled, sFile, sMem, sHist>>

\* The record of the session's calls and of the cancel requests.
sessHist == <<sLast, sSince, sReq, sPolled>>

pollVars == <<pPc, pLogin, pTodo, pCur, pNext, pEnq, pWrote, pFault, pTaint>>

queueVars == <<qQueue, qKeys, rPc, rJob, rPosted, tCol, tPr, rows, ghBody, ghState, ghTs,
               pollVars, gPrev, gEnq, nGh>>

storeVars == <<stJobs, stGot, stReported, stLast>>

dirVars == <<dPhase, dPlan, dTurn, dReq>>

fetchVars == <<fResp, fFallback, fOut>>

workVars == <<wRec, wLast, wCalls>>

runVars == <<rjJob, rjRanOn, rjEnv>>

patchVars == <<ptTick, ptLast>>

lockVars == <<lkHolder, lkKind, lkPc>>

vars == <<compVars, coordVars, sessVars, queueVars, storeVars, dirVars, fetchVars, workVars, runVars, patchVars, lockVars>>

\* What a component's actions leave alone: the other components.
notComp == <<coordVars, sessVars, queueVars, storeVars, dirVars, fetchVars, workVars, runVars, patchVars, lockVars>>
notCoord == <<compVars, sessVars, queueVars, storeVars, dirVars, fetchVars, workVars, runVars, patchVars, lockVars>>
notSess == <<compVars, coordVars, queueVars, storeVars, dirVars, fetchVars, workVars, runVars, patchVars, lockVars>>
notQueue == <<compVars, coordVars, sessVars, storeVars, dirVars, fetchVars, workVars, runVars, patchVars, lockVars>>
notDir == <<coordVars, sessVars, queueVars, storeVars, fetchVars, workVars, runVars, patchVars, lockVars>>
notFetch == <<compVars, coordVars, sessVars, queueVars, storeVars, dirVars, workVars, runVars, patchVars, lockVars>>
notWork == <<compVars, coordVars, sessVars, queueVars, storeVars, dirVars, fetchVars, runVars, patchVars, lockVars>>
notRun == <<compVars, coordVars, sessVars, queueVars, storeVars, dirVars, fetchVars, workVars, patchVars, lockVars>>
notPatch == <<compVars, coordVars, sessVars, queueVars, storeVars, dirVars, fetchVars, workVars, runVars, lockVars>>
notLock == <<compVars, coordVars, sessVars, queueVars, storeVars, dirVars, fetchVars, workVars, runVars, patchVars>>
notStore == <<compVars, coordVars, sessVars, queueVars, dirVars, fetchVars, workVars, runVars, patchVars, lockVars>>

\* ------------------------------------------------------------------------
\* Generic helpers
\* ------------------------------------------------------------------------
Max(a, b) == IF a >= b THEN a ELSE b

RECURSIVE SumChars(_)
SumChars(s) == IF s = <<>> THEN 0 ELSE Head(s).chars + SumChars(Tail(s))

RECURSIVE SumToks(_)
SumToks(s) == IF s = <<>> THEN 0 ELSE Head(s).toks + SumToks(Tail(s))

RECURSIVE CountKind(_, _)
CountKind(s, k) ==
    IF s = <<>> THEN 0
    ELSE (IF Head(s).kind = k THEN 1 ELSE 0) + CountKind(Tail(s), k)

\* ------------------------------------------------------------------------
\* Context compactor
\* ------------------------------------------------------------------------
\* Bounds of the compactor inputs.
MaxMsgs == 8

\* _DIRECTOR_COMPACT_CHUNK_SIZE
ChunkSize == 4

\* A message is its content's size: chars = len(content), toks = the number of
\* tokens cl100k_base gives for it.  kind/id tell an original message of the
\* input (id = its position) from a summary (id = the step that produced it).
MsgShapes == { [chars |-> 3, toks |-> 1], [chars |-> 42, toks |-> 9] }

\* "Previous conversation (summarized):\n\n" + summary: 37 characters of prefix,
\* then whatever the summarizer (or the truncation fallback) returned.
SummaryShapes == { [chars |-> 37, toks |-> 8],
                   [chars |-> 45, toks |-> 10],
                   [chars |-> 237, toks |-> 55] }

Budgets == { 12, 30, 1000 }

OrigMsg(i, shape) ==
    [kind |-> "orig", id |-> i,
     role |-> IF i % 2 = 1 THEN "user" ELSE "assistant",
     chars |-> shape.chars, toks |-> shape.toks]

SummaryMsg(step, shape) ==
    [kind |-> "summary", id |-> step, role |-> "user",
     chars |-> shape.chars, toks |-> shape.toks]

\* _count_tokens_for_messages: per-message tiktoken counts added up, or, when
\* tiktoken is unavailable, total characters // 4.
CountTokens(messages, tiktoken) ==
    IF tiktoken THEN SumToks(messages) ELSE SumChars(messages) \div 4

FullMessages(out) == <<cSystem>> \o out \o <<cNewUser>>

\* Mutant of CompactReturns: the chunk test off by one (<= for <).
CompactReturnsOffByOne(out) ==
    \/ CountTokens(FullMessages(out), cTiktoken) <= cLimit
    \/ Len(out) <= ChunkSize

\* The two return conditions of the loop, in the order the code tests them.
CompactReturns(out) ==
    \/ CountTokens(FullMessages(out), cTiktoken) <= cLimit
    \/ Len(out) < ChunkSize

SpliceSummaryForFirst(out, summary_msg) == <<summary_msg>> \o SubSeq(out, 2, Len(out))

SpliceSummaryAtEnd(out, summary_msg) ==
    SubSeq(out, ChunkSize + 1, Len(out)) \o <<summary_msg>>

\* out = [summary_msg] + out[_DIRECTOR_COMPACT_CHUNK_SIZE:]
SpliceSummary(out, summary_msg) ==
    <<summary_msg>> \o SubSeq(out, ChunkSize + 1, Len(out))

InitCompact ==
    /\ \E n \in 0..MaxMsgs :
         \E shapes \in [1..n -> MsgShapes] :
             cIn = [i \in 1..n |-> OrigMsg(i, shapes[i])]
    /\ cOut = cIn
    /\ cSystem \in { [kind |-> "system", id |-> 0, role |-> "system",
                      chars |-> 20, toks |-> 5] }
    /\ cNewUser \in { [kind |-> "new_user", id |-> 0, role |-> "user",
                       chars |-> s.chars, toks |-> s.toks] : s \in MsgShapes }
    /\ cLimit \in Budgets
    /\ cTiktoken \in BOOLEAN
    /\ cPc = "loop"
    /\ cSteps = 0

\* One pass of `while True` that ends in a return.
CompactReturn ==
    /\ cPc = "loop"
    /\ CompactReturns(cOut)
    /\ cPc' = "done"
    /\ UNCHANGED <<cIn, cOut, cSystem, cNewUser, cLimit, cTiktoken, cSteps, notComp>>

\* One pass of `while True` that summarizes out[:4]; the summarizer's answer
\* (an LLM reply, or the truncated transcript when the call fails) is any shape.
CompactStep ==
    /\ cPc = "loop"
    /\ ~CompactReturns(cOut)
    /\ \E shape \in SummaryShapes :
         cOut' = SpliceSummary(cOut, SummaryMsg(cSteps + 1, shape))
    /\ cSteps' = cSteps + 1
    /\ UNCHANGED <<cIn, cSystem, cNewUser, cLimit, cTiktoken, cPc, notComp>>

NextCompact == CompactReturn \/ CompactStep

\* ------------------------------------------------------------------------
\* Coordinator
\* ------------------------------------------------------------------------
MaxJobs == 2
MaxSetting == 2
MaxEnvConc == 2

JobIds == 1..MaxJobs

\* What the settings API can hold under MAX_CONCURRENT_AGENTS.
\* kind "int" is a value int(str(raw).strip()) accepts, n its value.
SettingValues ==
    { [kind |-> k, n |-> 0] : k \in {"absent", "null", "empty", "nonint"} }
        \cup { [kind |-> "int", n |-> i] : i \in -1..MaxSetting }

\* The request raised, or raise_for_status() did.
ErrorResp == [kind |-> "error", n |-> 0]

\* What GET /api/settings can answer in a poll cycle: the value the settings
\* page holds at that moment (it may be changed between any two cycles), or an error.
SettingResponses == SettingValues \cup {ErrorResp}

\* Bound on the length of a string value of the setting.
MaxRawLen == 3

\* The characters of a string value: blank, sign, digits, anything else.
Chars == {" ", "-", "0", "1", "2", "x"}
Digits == {"0", "1", "2"}

DigitVal(c) == CASE c = "0" -> 0 [] c = "1" -> 1 [] OTHER -> 2

\* str.strip()
RECURSIVE LStrip(_)
LStrip(s) == IF s # <<>> /\ Head(s) = " " THEN LStrip(Tail(s)) ELSE s

RECURSIVE RStrip(_)
RStrip(s) ==
    IF s # <<>> /\ s[Len(s)] = " " THEN RStrip(SubSeq(s, 1, Len(s) - 1)) ELSE s

Strip(s) == RStrip(LStrip(s))

\* int(text): an optional sign, then digits only; anything else raises
\* ValueError.
IsDigits(s) == s # <<>> /\ \A i \in 1 .. Len(s) : s[i] \in Digits

IsIntLiteral(s) ==
    IF s # <<>> /\ Head(s) = "-" THEN IsDigits(Tail(s)) ELSE IsDigits(s)

RECURSIVE DigitsVal(_)
DigitsVal(s) ==
    IF s = <<>> THEN 0
    ELSE 10 * DigitsVal(SubSeq(s, 1, Len(s) - 1)) + DigitVal(s[Len(s)])

IntOf(s) == IF Head(s) = "-" THEN 0 - DigitsVal(Tail(s)) ELSE DigitsVal(s)

\* String values of the setting, as character sequences.
StringValues ==
    { [kind |-> "str", n |-> 0, s |-> t] :
        t \in UNION { [1 .. k -> Chars] : k \in 0 .. MaxRawLen } }

FetchMaxConcurrentUnclamped(resp, fallback) ==
    IF resp.kind = "int" THEN resp.n
    ELSE IF resp.kind = "str" /\ IsIntLiteral(Strip(resp.s)) THEN IntOf(Strip(resp.s))
    ELSE fallback

\* fetch_max_concurrent: resp is ErrorResp or the raw value of the key, a
\* JSON integer, a JSON string, null, or absent ("empty" and "nonint" are the
\* empty string and a value that is no integer, in short).  `if raw is not
\* None and str(raw).strip()`, then max(1, int(str(raw).strip())); any
\* exception, ValueError included, returns the fallback.
FetchMaxConcurrent(resp, fallback) ==
    IF resp.kind = "int" THEN Max(1, resp.n)
    ELSE IF resp.kind = "str" /\ IsIntLiteral(Strip(resp.s))
    THEN Max(1, IntOf(Strip(resp.s)))
    ELSE fallback

\* Mutant of BelowCeiling: the claim loop's test off by one.
BelowCeilingOffByOne(running, max_concurrent) ==
    Cardinality(running) <= max_concurrent

\* while len(running) < max_concurrent
BelowCeiling(running, max_concurrent) ==
    Cardinality(running) < max_concurrent

Pending == { j \in JobIds : jobs[j].status = "pending" }

\* The job the store hands out: the oldest pending one (ids follow creation).
OldestPending == CHOOSE j \in Pending : \A k \in Pending : j <= k

InitCoord ==
    /\ coEnvMax \in 1..MaxEnvConc
    /\ coMax \in { FetchMaxConcurrent(r, coEnvMax) : r \in SettingResponses }
    /\ coPc = "reap"
    /\ coRunning = {}
    /\ coAlive = {}
    /\ jobs = [j \in JobIds |-> [status |-> "none", mode |-> "docker"]]
    /\ coExit = [j \in JobIds |-> "none"]
    /\ coRanOn = [j \in JobIds |-> <<>>]
    /\ coReports = [j \in JobIds |-> <<>>]
    /\ coImages = {}

\* The backend creates the next job, for a project run locally or in a container.
CreateJob ==
    /\ \E j \in JobIds :
         /\ jobs[j].status = "none"
         /\ \A k \in JobIds : k < j => jobs[k].status # "none"
         /\ \E m \in {"local", "docker"} :
              jobs' = [jobs EXCEPT ![j] = [status |-> "pending", mode |-> m]]
    /\ UNCHANGED <<coEnvMax, coMax, coPc, coRunning, coAlive, coExit,
                   coRanOn, coReports, coImages, notCoord>>

\* running = [t for t in running if t.is_alive()]
Reap ==
    /\ coPc = "reap"
    /\ coRunning' = coRunning \cap coAlive
    /\ coPc' = "fetch"
    /\ UNCHANGED <<coEnvMax, coMax, coAlive, jobs, coExit, coRanOn,
                   coReports, coImages, notCoord>>

\* new_max = fetch_max_concurrent(base_url, env_max_concurrent)
Fetch ==
    /\ coPc = "fetch"
    /\ \E resp \in SettingResponses :
         coMax' = FetchMaxConcurrent(resp, coEnvMax)
    /\ coPc' = "claim"
    /\ UNCHANGED <<coEnvMax, coRunning, coAlive, jobs, coExit, coRanOn,
                   coReports, coImages, notCoord>>

\* One pass of the inner while: claim_job returned a job; its thread is started.
ClaimAndStart ==
    /\ coPc = "claim"
    /\ BelowCeiling(coRunning, coMax)
    /\ Pending # {}
    /\ LET j == OldestPending IN
         /\ jobs' = [jobs EXCEPT ![j].status = "running"]
         /\ coRunning' = coRunning \cup {j}
         /\ coAlive' = coAlive \cup {j}
    /\ UNCHANGED <<coEnvMax, coMax, coPc, coExit, coRanOn, coReports,
                   coImages, notCoord>>

\* The inner while ends: the ceiling is reached, or claim_job returned None
\* (204, or an error it swallowed).
ClaimDone ==
    /\ coPc = "claim"
    /\ coPc' = "sleep"
    /\ UNCHANGED <<coEnvMax, coMax, coRunning, coAlive, jobs, coExit,
                   coRanOn, coReports, coImages, notCoord>>

\* time.sleep(poll_interval)
Sleep ==
    /\ coPc = "sleep"
    /\ coPc' = "reap"
    /\ UNCHANGED <<coEnvMax, coMax, coRunning, coAlive, jobs, coExit,
                   coRanOn, coReports, coImages, notCoord>>

\* mark_complete / mark_fail as the job store applies them: running -> the
\* outcome, anything else is refused and the job is left as it is.
StoreApply(js, j, outcome) ==
    IF js[j].status = "running"
    THEN [js EXCEPT ![j].status = IF outcome = "complete" THEN "completed" ELSE "failed"]
    ELSE js

\* The outcome _run_job reports.  Local: complete iff code == 0.  Docker: on
\* returncode 0 the image tag is saved first, inside the try, so a failure to
\* write the state file lands in `except Exception` and mark_fail is called.
ReportedOutcome(mode, exit, saved) ==
    IF mode = "local"
    THEN (IF exit = "zero" THEN "complete" ELSE "fail")
    ELSE (IF exit = "zero" /\ saved THEN "complete" ELSE "fail")

\* _run_job, the body of one job's thread: the agent runs, on the host for
\* execution_mode=local (_run_agent_direct), else under docker run; it ends
\* with exit code 0, with another exit code, or the launch raises; the outcome
\* is reported and the thread ends.  saved: _save_project_image did not raise.
RunJob ==
    /\ \E j \in coAlive :
         \E e \in {"zero", "nonzero", "launch_error"}, saved \in BOOLEAN :
            LET outcome == ReportedOutcome(jobs[j].mode, e, saved) IN
            /\ coExit' = [coExit EXCEPT ![j] = e]
            /\ coRanOn' = [coRanOn EXCEPT ![j] =
                   Append(@, IF jobs[j].mode = "local" THEN "host" ELSE "docker")]
            /\ coReports' = [coReports EXCEPT ![j] = Append(@, outcome)]
            /\ jobs' = StoreApply(jobs, j, outcome)
            /\ coImages' = IF jobs[j].mode = "docker" /\ e = "zero" /\ saved
                            THEN coImages \cup {j} ELSE coImages
            /\ coAlive' = coAlive \ {j}
    /\ UNCHANGED <<coEnvMax, coMax, coPc, coRunning, notCoord>>

NextCoord ==
    \/ CreateJob \/ Reap \/ Fetch \/ ClaimAndStart \/ ClaimDone \/ Sleep \/ RunJob

\* ------------------------------------------------------------------------
\* Session (Director/Worker control loop)
\* ------------------------------------------------------------------------
\* Loop bounds of the model, standing for max_turns = 1000 (execution loop) and
\* max_turns = 50 (review loop).
MaxExecTurns == 3
MaxReviewTurns == 2

NoResp == [complete |-> FALSE, next |-> FALSE, approved |-> FALSE, plan |-> FALSE]

\* A Director reply that parsed: complete, a non-empty next_prompt, and in plan
\* review plan_approved and a non-empty approved_plan_text.
ExecReplies ==
    { [complete |-> c, next |-> n, approved |-> FALSE, plan |-> FALSE] :
        c \in BOOLEAN, n \in BOOLEAN }

PlanReplies ==
    { [complete |-> FALSE, next |-> n, approved |-> a, plan |-> t] :
        n \in BOOLEAN, a \in BOOLEAN, t \in BOOLEAN }

\* What one effect adds to the record of effects after the cancel observation.
After(e) == IF sObserved THEN sAfterObs \cup e ELSE sAfterObs

\* The session ends without Finalize (`return`, or an exception passing
\* through `finally`).
EndWith(how) ==
    /\ sPc' = "done"
    /\ sEnd' = how

\* _retrieve_memory_passages / _index_completion_memory: memory is not
\* configured (no base_save_dir), the call works, or it raises.
MemoryOutcomes == {"off", "ok", "failed"}

NoHist == [calls |-> 0, prompt_history |-> <<>>, conversation_history |-> <<>>]

NoMem == [op |-> "none", outcome |-> "none", passages |-> FALSE, logged |-> FALSE]

\* What the call leaves: the passages it returns (retrieval only) and the
\* "failed" entry of the execution log.
MemoryCall(op, outcome) ==
    [op |-> op, outcome |-> outcome,
     passages |-> (op = "retrieve" /\ outcome = "ok"),
     logged |-> (outcome = "failed")]

MemoryRaisesOnFailure(outcome) == outcome = "failed"

\* Both functions wrap the call in try / except Exception and return.
MemoryRaises(outcome) == FALSE

\* The retrieval that precedes the first worker turn and the Director call of
\* every loop iteration: the flow goes on to `to` with whatever it returned.
RetrieveMemory(to) ==
    \E outcome \in MemoryOutcomes :
        /\ sMem' = MemoryCall("retrieve", outcome)
        /\ IF MemoryRaises(outcome)
           THEN EndWith("memory_error")
           ELSE sPc' = to /\ sEnd' = sEnd

InitSess ==
    /\ sKind \in {"ticket", "setup", "review"}
    /\ sPc = "begin"
    /\ sEnd = "none"
    /\ sCancel = FALSE
    /\ sTurn = 0
    /\ sResp = NoResp
    /\ sPrompt = "none"
    /\ sPlan = ""
    /\ sCol \in IF sKind = "review" THEN {"in_review", "done"} ELSE {"in_progress"}
    /\ sHasPr = (sKind = "review")
    /\ sExecTurns = 0
    /\ sAccepted = FALSE
    /\ sObserved = FALSE
    /\ sEffects = {}
    /\ sAfterObs = {}
    /\ sLast = "none"
    /\ sSince = 0
    /\ sReq = "none"
    /\ sPolled = FALSE
    /\ sFile = "unread"
    /\ sMem = NoMem
    /\ sHist = NoHist

\* cancel_ticket_execution_api / cancel_ticket_execution: sets the flag of a
\* registered session; with no session registered for the ticket the request
\* sets nothing and is answered "No active execution for this ticket".
CancelRequest ==
    /\ sPc # "done"
    /\ ~sCancel
    /\ sPc = "begin" => sReq = "none"
    /\ IF sPc = "begin"
       THEN sCancel' = sCancel /\ sReq' = "no_session"
       ELSE sCancel' = TRUE /\ sReq' = IF sReq = "no_session" THEN "no_session" ELSE "set"
    /\ UNCHANGED <<sKind, sPc, sEnd, sTurn, sResp, sPrompt, sPlan, sCol, sHasPr,
                   sExecTurns, sAccepted, sObserved, sEffects, sAfterObs,
                   sLast, sSince, sPolled, sFile, sMem, sHist, notSess>>

ReviewNeverSkipped(kind, column_id) == FALSE

\* process_ticket_review: `if ticket.column_id != "in_review": return`, before
\* the session is registered and anything is logged.
ReviewSkipped(kind, column_id) == kind = "review" /\ column_id # "in_review"

\* Ticket lookup and registration in _active_sessions; a review of a ticket
\* that is not in_review returns at once.
SessBegin ==
    /\ sPc = "begin"
    /\ IF ReviewSkipped(sKind, sCol)
       THEN EndWith("skipped")
       ELSE sPc' = "precheck" /\ sEnd' = sEnd
    /\ UNCHANGED <<sKind, sCancel, sTurn, sResp, sPrompt, sPlan, sCol, sHasPr,
                   sExecTurns, sAccepted, sObserved, sEffects, sAfterObs, sessHist, sFile, sMem, sHist, notSess>>

FirstPcResearchForSetup(kind) ==
    IF kind = "review" THEN "reviewTurn0" ELSE "research"

\* Where the flow starts: `if is_setup_ticket` chooses _run_setup_ticket_flow,
\* otherwise research comes first; process_ticket_review starts with the
\* reviewer's comment.
FirstPc(kind) ==
    CASE kind = "ticket" -> "research"
      [] kind = "setup" -> "setupTurn"
      [] OTHER -> "reviewTurn0"

\* Context loaded, project_path validated, the cancel flag checked before the
\* first worker turn, the ticket branch created or checked out.
SessPrecheck ==
    /\ sPc = "precheck"
    /\ \E pathOk \in BOOLEAN, checkoutOk \in BOOLEAN :
         /\ sPolled' = pathOk
         /\ IF ~pathOk THEN
               EndWith("invalid_project_path") /\ sObserved' = sObserved /\ sMem' = NoMem
            ELSE IF sCancel THEN
               EndWith("cancelled") /\ sObserved' = TRUE /\ sMem' = NoMem
            ELSE IF sKind = "review" /\ ~checkoutOk THEN
               EndWith("checkout_failed") /\ sObserved' = sObserved /\ sMem' = NoMem
            ELSE
               /\ RetrieveMemory(FirstPc(sKind))
               /\ sObserved' = sObserved
    /\ UNCHANGED <<sKind, sCancel, sTurn, sResp, sPrompt, sPlan, sCol, sHasPr,
                   sExecTurns, sAccepted, sEffects, sAfterObs, sLast, sSince, sReq, sFile, sHist, notSess>>

\* How a worker subprocess can end: exit code 0, a non-zero exit code, the
\* timeout, or an executable that cannot be started.
WorkerOutcomes == {"ok", "nonzero", "timeout", "missing"}

WorkerRaisesOnTimeout(outcome) == outcome \in {"missing", "timeout"}

\* _send_to_worker_opencode returns a dict with the output and return_code
\* after any exit code, and a dict with return_code -1 after TimeoutExpired;
\* only the failure to start the executable leaves it as an exception.
WorkerRaises(outcome) == outcome = "missing"

RecordTurnOutputOnly(h, n, from) ==
    IF from \in {"research", "setupTurn", "reviewTurn0"}
    THEN [calls |-> n, prompt_history |-> <<n>>, conversation_history |-> <<n>>]
    ELSE [calls |-> n, prompt_history |-> h.prompt_history,
          conversation_history |-> Append(h.conversation_history, n)]

\* What the caller does with the histories after worker call n returned: the
\* first turn of a flow starts both lists with its prompt and its output,
\* every later turn appends its prompt to the one and its output to the
\* other.  An entry is the number of the call it belongs to.
RecordTurn(h, n, from) ==
    IF from \in {"research", "setupTurn", "reviewTurn0"}
    THEN [calls |-> n, prompt_history |-> <<n>>, conversation_history |-> <<n>>]
    ELSE [calls |-> n, prompt_history |-> Append(h.prompt_history, n),
          conversation_history |-> Append(h.conversation_history, n)]

\* The positions at which the next step is a worker call.
WorkerPcs == {"research", "setupTurn", "reviewTurn0", "plan", "prAskPlan",
              "execSend", "rvSend"}

\* _send_to_worker and what the caller does with it: the call returns and the
\* flow goes on, or the exception ends the session.
WorkerTurn(from, to) ==
    /\ sPc = from
    /\ sEffects' = sEffects \cup {"worker"}
    /\ sAfterObs' = After({"worker"})
    /\ sSince' = IF sCancel THEN sSince + 1 ELSE sSince
    /\ sPolled' = FALSE
    /\ \E outcome \in WorkerOutcomes :
         /\ sLast' = outcome
         /\ IF WorkerRaises(outcome)
            THEN /\ EndWith("worker_error")
                 /\ sHist' = [sHist EXCEPT !.calls = @ + 1]
            ELSE /\ sPc' = to /\ sEnd' = sEnd
                 /\ sHist' = RecordTurn(sHist, sHist.calls + 1, from)

\* Research, the setup instruction, the review comment: the first worker turn.
FirstWorkerTurn ==
    /\ \/ WorkerTurn("research", "planGate")
       \/ WorkerTurn("setupTurn", "execTop")
       \/ WorkerTurn("reviewTurn0", "rvTop")
    /\ UNCHANGED <<sKind, sCancel, sTurn, sResp, sPrompt, sPlan, sCol, sHasPr,
                   sExecTurns, sAccepted, sObserved, sReq, sFile, sMem, notSess>>

PlanGateWithoutCheck ==
    /\ sPc = "planGate"
    /\ sPc' = "plan"
    /\ UNCHANGED <<sKind, sEnd, sCancel, sTurn, sResp, sPrompt, sPlan, sCol, sHasPr,
                   sExecTurns, sAccepted, sObserved, sEffects, sAfterObs,
                   sessHist, sFile, sMem, sHist, notSess>>

\* The cancel check before planning.
PlanGate ==
    /\ sPc = "planGate"
    /\ IF sCancel
       THEN EndWith("cancelled") /\ sObserved' = TRUE
       ELSE sPc' = "plan" /\ sEnd' = sEnd /\ sObserved' = sObserved
    /\ sPolled' = TRUE
    /\ UNCHANGED <<sKind, sCancel, sTurn, sResp, sPrompt, sPlan, sCol, sHasPr,
                   sExecTurns, sAccepted, sEffects, sAfterObs, sLast, sSince, sReq, sFile, sMem, sHist, notSess>>

\* The planning worker turn.
PlanTurn ==
    /\ WorkerTurn("plan", "prTop")
    /\ UNCHANGED <<sKind, sCancel, sTurn, sResp, sPrompt, sPlan, sCol, sHasPr,
                   sExecTurns, sAccepted, sObserved, sReq, sFile, sMem, notSess>>

\* Top of the plan-review loop: the cancel check.
PlanReviewTop ==
    /\ sPc = "prTop"
    /\ IF sCancel
       THEN EndWith("cancelled") /\ sObserved' = TRUE /\ sMem' = NoMem
       ELSE RetrieveMemory("prAssess") /\ sObserved' = sObserved
    /\ sPolled' = TRUE
    /\ UNCHANGED <<sKind, sCancel, sTurn, sResp, sPrompt, sPlan, sCol, sHasPr,
                   sExecTurns, sAccepted, sEffects, sAfterObs, sLast, sSince, sReq, sFile, sHist, notSess>>

AssessIgnoresFailure(from, to, replies) ==
    /\ sPc = from
    /\ sEffects' = sEffects \cup {"director"}
    /\ sAfterObs' = After({"director"})
    /\ sPc' = to
    /\ sEnd' = sEnd
    /\ \/ sResp' = NoResp /\ sLast' = "director_failed"
       \/ \E r \in replies : sResp' = r /\ sLast' = "director_ok"

\* _agent_assess: the Director call; a failed request or a reply that is not a
\* JSON object raises AgentAPIError, which ends the session.
Assess(from, to, replies) ==
    /\ sPc = from
    /\ sEffects' = sEffects \cup {"director"}
    /\ sAfterObs' = After({"director"})
    /\ \/ EndWith("director_error") /\ sResp' = sResp /\ sLast' = "director_failed"
       \/ \E r \in replies :
            sResp' = r /\ sPc' = to /\ sEnd' = sEnd /\ sLast' = "director_ok"

PlanReviewAssess ==
    /\ Assess("prAssess", "prApply", PlanReplies)
    /\ UNCHANGED <<sKind, sCancel, sTurn, sPrompt, sPlan, sCol, sHasPr,
                   sExecTurns, sAccepted, sObserved, sSince, sReq, sPolled, sFile, sMem, sHist, notSess>>

\* The plan text the loop and the fallbacks after it settle on, given whether
\* the plan file has text and whether the last worker output has.
PlanText(resp, fileHasText, lastOutHasText) ==
    IF resp.approved /\ fileHasText THEN "file"
    ELSE IF resp.plan THEN "director"
    ELSE IF lastOutHasText THEN "last_output"
    ELSE IF fileHasText THEN "file"
    ELSE ""

\* Rest of the first plan-review iteration.  On approval the plan file is
\* read; if it is empty the worker is asked for the plan.  The `break` stands
\* at the loop body's level, so the loop ends here whatever the verdict was.
PlanReviewApply ==
    /\ sPc = "prApply"
    /\ \E fileHasText \in BOOLEAN, lastOutHasText \in BOOLEAN :
         /\ sFile' = IF fileHasText THEN "text" ELSE "empty"
         /\ IF sResp.approved /\ ~fileHasText
            THEN sPc' = "prAskPlan" /\ sPlan' = sPlan
            ELSE sPc' = "execTop" /\ sPlan' = PlanText(sResp, fileHasText, lastOutHasText)
    /\ sTurn' = 0
    /\ UNCHANGED <<sKind, sEnd, sCancel, sResp, sPrompt, sCol, sHasPr,
                   sExecTurns, sAccepted, sObserved, sEffects, sAfterObs, sessHist,
                   sMem, sHist, notSess>>

\* The worker is asked to output the approved plan; its answer (or, if empty,
\* the Director's text, or the output before it) becomes the plan.
PlanAskWorker ==
    /\ WorkerTurn("prAskPlan", "execTop")
    /\ \E outHasText \in BOOLEAN, lastOutHasText \in BOOLEAN :
         sPlan' = IF outHasText THEN "worker"
                  ELSE PlanText(sResp, FALSE, lastOutHasText)
    /\ UNCHANGED <<sKind, sCancel, sTurn, sResp, sPrompt, sCol, sHasPr,
                   sExecTurns, sAccepted, sObserved, sReq, sFile, sMem, notSess>>

LoopExhaustedOneLate(turn, max_turns) == turn > max_turns

\* `for turn in range(max_turns)`: no iteration is left.
LoopExhausted(turn, max_turns) == turn >= max_turns

\* Top of an execution-loop iteration: the loop is exhausted, or the cancel
\* flag is set (`return None`), or the iteration goes on.  Either way out of
\* the loop returns to process_ticket, whose next statement is _finalize.
ExecTop ==
    /\ sPc = "execTop"
    /\ IF LoopExhausted(sTurn, MaxExecTurns) THEN
          sPc' = "finalize" /\ sEnd' = sEnd /\ sObserved' = sObserved /\ sMem' = NoMem
       ELSE IF sCancel THEN
          sPc' = "finalize" /\ sEnd' = sEnd /\ sObserved' = TRUE /\ sMem' = NoMem
       ELSE RetrieveMemory("execAssess") /\ sObserved' = sObserved
    /\ sPolled' = (sPolled \/ sTurn < MaxExecTurns)
    /\ UNCHANGED <<sKind, sCancel, sTurn, sResp, sPrompt, sPlan, sCol, sHasPr,
                   sExecTurns, sAccepted, sEffects, sAfterObs, sLast, sSince, sReq, sFile, sHist, notSess>>

ExecAssess ==
    /\ Assess("execAssess", "execDecide", ExecReplies)
    /\ UNCHANGED <<sKind, sCancel, sTurn, sPrompt, sPlan, sCol, sHasPr,
                   sExecTurns, sAccepted, sObserved, sSince, sReq, sPolled, sFile, sMem, sHist, notSess>>

AcceptsCompleteOnAnyTurn(resp, turn) == resp.complete

\* `agent_response.get("complete") and not is_first_execution_turn`
AcceptsComplete(resp, turn) == resp.complete /\ turn # 0

\* next_prompt as the loop settles it: the Director's, or on turn 0 the
\* synthetic "Implement the approved plan above" prompt, or none.
NextPrompt(resp, turn) ==
    IF turn = 0 /\ (~resp.next \/ resp.complete) THEN "synthetic"
    ELSE IF resp.next THEN "director"
    ELSE "none"

\* The verdict is acted on: completion accepted, or a prompt chosen, or
\* AgentAPIError for a missing next_prompt.
ExecDecide ==
    /\ sPc = "execDecide"
    /\ IF AcceptsComplete(sResp, sTurn) THEN
          /\ \E outcome \in MemoryOutcomes :
               /\ sMem' = MemoryCall("index", outcome)
               /\ IF MemoryRaises(outcome)
                  THEN EndWith("memory_error") /\ sAccepted' = sAccepted
                  ELSE sPc' = "finalize" /\ sEnd' = sEnd /\ sAccepted' = TRUE
          /\ UNCHANGED sPrompt
       ELSE IF NextPrompt(sResp, sTurn) = "none" THEN
          /\ EndWith("director_error")
          /\ UNCHANGED <<sAccepted, sPrompt, sMem>>
       ELSE
          /\ sPrompt' = NextPrompt(sResp, sTurn)
          /\ sPc' = "execSend"
          /\ UNCHANGED <<sAccepted, sEnd, sMem>>
    /\ UNCHANGED <<sKind, sCancel, sTurn, sResp, sPlan, sCol, sHasPr,
                   sExecTurns, sObserved, sEffects, sAfterObs, sessHist, sFile, sHist, notSess>>

\* The execution worker turn and the incremental commit after it.
ExecSend ==
    /\ WorkerTurn("execSend", "execTop")
    /\ sExecTurns' = sExecTurns + 1
    /\ sTurn' = sTurn + 1
    /\ UNCHANGED <<sKind, sCancel, sResp, sPrompt, sPlan, sCol, sHasPr,
                   sAccepted, sObserved, sReq, sFile, sMem, notSess>>

\* Top of a review-loop iteration; leaving the loop returns to
\* process_ticket_review, which goes on to the reply and _finalize.
ReviewTop ==
    /\ sPc = "rvTop"
    /\ IF LoopExhausted(sTurn, MaxReviewTurns) THEN
          sPc' = "rvReply" /\ sEnd' = sEnd /\ sObserved' = sObserved /\ sMem' = NoMem
       ELSE IF sCancel THEN
          sPc' = "rvReply" /\ sEnd' = sEnd /\ sObserved' = TRUE /\ sMem' = NoMem
       ELSE RetrieveMemory("rvAssess") /\ sObserved' = sObserved
    /\ sPolled' = (sPolled \/ sTurn < MaxReviewTurns)
    /\ UNCHANGED <<sKind, sCancel, sTurn, sResp, sPrompt, sPlan, sCol, sHasPr,
                   sExecTurns, sAccepted, sEffects, sAfterObs, sLast, sSince, sReq, sFile, sHist, notSess>>

ReviewAssess ==
    /\ Assess("rvAssess", "rvDecide", ExecReplies)
    /\ UNCHANGED <<sKind, sCancel, sTurn, sPrompt, sPlan, sCol, sHasPr,
                   sExecTurns, sAccepted, sObserved, sSince, sReq, sPolled, sFile, sMem, sHist, notSess>>

ReviewAcceptsCompleteAfterTurn0(resp, turn) == resp.complete /\ turn # 0

\* `if agent_response.get("complete")`: the review loop accepts complete on
\* any turn, the first included.
ReviewAcceptsComplete(resp, turn) == resp.complete

\* The verdict of a review-loop iteration is acted on.
ReviewDecide ==
    /\ sPc = "rvDecide"
    /\ IF ReviewAcceptsComplete(sResp, sTurn) THEN
          /\ sAccepted' = TRUE
          /\ sPc' = "rvReply"
          /\ UNCHANGED <<sEnd, sPrompt>>
       ELSE IF ~sResp.next THEN
          /\ EndWith("director_error")
          /\ UNCHANGED <<sAccepted, sPrompt>>
       ELSE
          /\ sPrompt' = "director"
          /\ sPc' = "rvSend"
          /\ UNCHANGED <<sAccepted, sEnd>>
    /\ UNCHANGED <<sKind, sCancel, sTurn, sResp, sPlan, sCol, sHasPr,
                   sExecTurns, sObserved, sEffects, sAfterObs, sessHist, sFile, sMem, sHist, notSess>>

ReviewSend ==
    /\ WorkerTurn("rvSend", "rvTop")
    /\ sTurn' = sTurn + 1
    /\ UNCHANGED <<sKind, sCancel, sResp, sPrompt, sPlan, sCol, sHasPr,
                   sExecTurns, sAccepted, sObserved, sReq, sFile, sMem, notSess>>

\* _generate_pr_comment_reply: one request to the agent API; a failure falls
\* back to the completion summary.
ReviewReply ==
    /\ sPc = "rvReply"
    /\ sPc' = "finalize"
    /\ sEffects' = sEffects \cup {"reply_llm"}
    /\ sAfterObs' = After({"reply_llm"})
    /\ UNCHANGED <<sKind, sEnd, sCancel, sTurn, sResp, sPrompt, sPlan, sCol, sHasPr,
                   sExecTurns, sAccepted, sObserved, sessHist, sFile, sMem, sHist, notSess>>

\* What the git/gh block of _finalize gets done before an exception (if any)
\* leaves it: nothing, or the push, or the push and the gh command with the
\* given result.
FinalizeEffects(review, reached, ghOk) ==
    CASE reached = "none" -> {}
      [] reached = "push" -> {"push"}
      [] OTHER -> {"push"} \cup (IF review THEN {"comment"}
                                 ELSE IF ghOk THEN {"pr"} ELSE {})

\* _finalize: add, commit, push; in review mode `gh pr comment`, otherwise
\* `gh pr create`, status completed and column in_review whatever the git and
\* gh commands did.
Finalize ==
    /\ sPc = "finalize"
    /\ \E reached \in {"none", "push", "gh"}, ghOk \in BOOLEAN :
         LET done == FinalizeEffects(sKind = "review", reached, ghOk)
             col == IF sKind = "review" THEN {} ELSE {"column"}
         IN  /\ sEffects' = sEffects \cup done \cup col
             /\ sAfterObs' = After(done \cup col)
             /\ sHasPr' = (sHasPr \/ "pr" \in done)
    /\ sCol' = IF sKind = "review" THEN sCol ELSE "in_review"
    /\ EndWith("finalized")
    /\ UNCHANGED <<sKind, sCancel, sTurn, sResp, sPrompt, sPlan,
                   sExecTurns, sAccepted, sObserved, sessHist, sFile, sMem, sHist, notSess>>

NextSess ==
    \/ CancelRequest
    \/ SessBegin
    \/ SessPrecheck
    \/ FirstWorkerTurn
    \/ PlanGate
    \/ PlanTurn
    \/ PlanReviewTop
    \/ PlanReviewAssess
    \/ PlanReviewApply
    \/ PlanAskWorker
    \/ ExecTop
    \/ ExecAssess
    \/ ExecDecide
    \/ ExecSend
    \/ ReviewTop
    \/ ReviewAssess
    \/ ReviewDecide
    \/ ReviewSend
    \/ ReviewReply
    \/ Finalize

\* ------------------------------------------------------------------------
\* In-process agent queue, job runner and PR review poller (routes.py)
\* ------------------------------------------------------------------------
\* Budget of the environment: events on GitHub.
MaxGhEvents == 1

\* One ticket, in review, with its PR (number 1).  Of the board's columns the
\* code here tells in_progress and in_review from the rest; "done" stands for
\* the rest.
Tickets == {1}
Columns == {"in_progress", "in_review", "done"}

\* The comments GitHub can hold on the PR:
\* 1 an issue comment of a reviewer, 2 a later review submission (its body may
\* be empty), 3 the reply the agent posts under its own login.
Cids == 1 .. 3
CommentPr(c) == 1
AgentLogin == "bot"
CommentAuthor(c) == IF c = 3 THEN AgentLogin ELSE "human"
CommentTs(c) == c
Endpoints == {"issue_comments", "pull_comments", "reviews"}
CommentEndpoint(c) == IF c = 2 THEN "reviews" ELSE "issue_comments"
ReplyCid(pr) == 3
CidsOf(pr) == { c \in Cids : CommentPr(c) = pr }

NoJob == [kind |-> "none", ticket |-> 0, pr |-> 0, cid |-> 0]
TicketJob(t) == [kind |-> "ticket", ticket |-> t, pr |-> 0, cid |-> 0]
ReviewJob(t, pr, c) == [kind |-> "review", ticket |-> t, pr |-> pr, cid |-> c]

\* _agent_job_key: ticket:{id} or review:{ticket}:{pr}; the comment is not
\* part of the key.
AgentJobKey(job) == [kind |-> job.kind, ticket |-> job.ticket, pr |-> job.pr]

KeyNeverHeld(key, keys) == FALSE

\* `if key in _agent_queue_keys`
KeyHeld(key, keys) == key \in keys

\* _trigger_middle_agent / _trigger_review_agent: under _agent_queue_lock the
\* key is looked up and, if absent, added; then the job is put on the queue.
\* A held key ends the call before anything is written.
Trigger(job) ==
    IF KeyHeld(AgentJobKey(job), qKeys)
    THEN UNCHANGED <<qQueue, qKeys>>
    ELSE /\ qKeys' = qKeys \cup {AgentJobKey(job)}
         /\ qQueue' = Append(qQueue, job)

NoRow == [body |-> "none", author |-> "none", ts |-> 0, addressed_at |-> 0]

\* addressed_at after one more write: 0 is NULL, 1 a first stamp, 2 a stamp
\* that overwrote an earlier one.
Stamp(row) == [row EXCEPT !.addressed_at = IF @ = 0 THEN 1 ELSE 2]

Degrade(g) == IF g = "clean" THEN "ran" ELSE g

InitQueue ==
    /\ qQueue = <<>>
    /\ qKeys = {}
    /\ rPc = "idle"
    /\ rJob = NoJob
    /\ rPosted = FALSE
    /\ tCol = [t \in Tickets |-> "in_review"]
    /\ tPr = [t \in Tickets |-> TRUE]
    /\ rows = [c \in Cids |-> NoRow]
    /\ ghBody = [c \in Cids |-> "none"]
    /\ ghState = [t \in Tickets |-> "open"]
    /\ ghTs = [c \in Cids |-> CommentTs(c)]
    /\ pPc = "idle"
    /\ pLogin = FALSE
    /\ pTodo = {}
    /\ pCur = 0
    /\ pNext = 0
    /\ pEnq = FALSE
    /\ pWrote = FALSE
    /\ pFault = FALSE
    /\ pTaint = "no"
    /\ gPrev = [t \in Tickets |-> "none"]
    /\ gEnq = {}
    /\ nGh = 0

\* What a change of PR t on GitHub does to the record of the poll passes.
GhChanged(t) ==
    /\ gPrev' = [gPrev EXCEPT ![t] = "none"]
    /\ pTaint' = IF pPc \in {"trigger", "prEnd"} /\ pCur = t THEN "gh" ELSE pTaint

\* What the end of a review job of ticket t does to it.
JobEnded(t) ==
    /\ gPrev' = [gPrev EXCEPT ![t] = Degrade(@)]
    /\ pTaint' = IF pPc \in {"trigger", "prEnd"} /\ pCur = t /\ pTaint = "no"
                 THEN "job" ELSE pTaint

\* ticket_detail PATCH: moved_to_in_progress, the test made before anything
\* is written.
MovedToInProgressFromAnywhere(cur, col) == col = "in_progress"

MovedToInProgress(cur, col) == col = "in_progress" /\ cur # "in_progress"

\* The HTTP status of a PATCH: 400 when the ticket moves into in_progress and
\* the project graph has no nodes, or neither a docker image nor a Dockerfile
\* is configured.
PatchStatus(cur, col, has_nodes, docker_image, has_dockerfile) ==
    IF MovedToInProgress(cur, col) /\ ~has_nodes THEN 400
    ELSE IF MovedToInProgress(cur, col) /\ ~docker_image /\ ~has_dockerfile THEN 400
    ELSE 200

\* ticket_detail PATCH of ticket t with column_id col ("absent": the request
\* has no column_id): a rejected request returns before anything is written;
\* otherwise the column is written and committed and a move into in_progress
\* calls _trigger_middle_agent.
TicketDetailPatch(t, col, has_nodes, docker_image, has_dockerfile) ==
    IF PatchStatus(tCol[t], col, has_nodes, docker_image, has_dockerfile) = 400
    THEN UNCHANGED <<tCol, qQueue, qKeys>>
    ELSE /\ tCol' = IF col = "absent" THEN tCol ELSE [tCol EXCEPT ![t] = col]
         /\ IF MovedToInProgress(tCol[t], col)
            THEN Trigger(TicketJob(t))
            ELSE UNCHANGED <<qQueue, qKeys>>

PatchTicket ==
    /\ \E t \in Tickets, col \in Columns \cup {"absent"},
          has_nodes \in BOOLEAN, docker_image \in BOOLEAN, has_dockerfile \in BOOLEAN :
         TicketDetailPatch(t, col, has_nodes, docker_image, has_dockerfile)
    /\ UNCHANGED <<rPc, rJob, rPosted, tPr, rows, ghBody, ghState, ghTs, pollVars,
                   gPrev, gEnq, nGh, notQueue>>

\* The runner takes a job (get_nowait) and _run_one_agent_job runs it under
\* _agent_run_lock.  The import fails (return: the key is released, nothing is
\* marked), or the agent runs: process_ticket ends early or reaches _finalize
\* (column in_review, a PR row if gh pr create worked); process_ticket_review
\* returns at once unless the ticket is in_review, and otherwise ends early or
\* reaches _finalize, which posts the reply on the PR.  Exceptions of the
\* agent are logged and swallowed.
RunnerAgent ==
    /\ rPc = "idle"
    /\ qQueue # <<>>
    /\ rJob' = Head(qQueue)
    /\ qQueue' = Tail(qQueue)
    /\ \E importOk \in BOOLEAN, finalized \in BOOLEAN, ghOk \in BOOLEAN :
         LET job == Head(qQueue)
             t == job.ticket
             replied == /\ importOk /\ job.kind = "review" /\ tCol[t] = "in_review"
                        /\ finalized /\ ghOk
             posts == replied /\ ghBody[ReplyCid(job.pr)] = "none"
         IN  /\ rPosted' = replied
             /\ rPc' = IF importOk /\ job.kind = "review" THEN "mark" ELSE "release"
             /\ IF importOk /\ job.kind = "ticket" /\ finalized
                THEN /\ tCol' = [tCol EXCEPT ![t] = "in_review"]
                     /\ tPr' = [tPr EXCEPT ![t] = @ \/ ghOk]
                ELSE UNCHANGED <<tCol, tPr>>
             /\ IF posts
                THEN /\ ghBody' = [ghBody EXCEPT ![ReplyCid(job.pr)] = "a"]
                     /\ GhChanged(job.pr)
                ELSE UNCHANGED <<ghBody, gPrev, pTaint>>
    /\ UNCHANGED <<qKeys, rows, ghState, ghTs,
                   pPc, pLogin, pTodo, pCur, pNext, pEnq, pWrote, pFault,
                   gEnq, nGh, notQueue>>

MarkAddressedOnlyIfReplied(rws, c, commitOk) ==
    IF rws[c].body # "none" /\ commitOk /\ rPosted THEN [rws EXCEPT ![c] = Stamp(@)] ELSE rws

\* _mark_pr_comment_addressed: addressed_at is written whatever it held; a
\* failed commit is rolled back.
MarkAddressed(rws, c, commitOk) ==
    IF rws[c].body # "none" /\ commitOk THEN [rws EXCEPT ![c] = Stamp(@)] ELSE rws

\* After a review job the runner marks the job's comment addressed.
RunnerMark ==
    /\ rPc = "mark"
    /\ \E commitOk \in BOOLEAN : rows' = MarkAddressed(rows, rJob.cid, commitOk)
    /\ rPc' = "release"
    /\ JobEnded(rJob.ticket)
    /\ UNCHANGED <<qQueue, qKeys, rJob, rPosted, tCol, tPr, ghBody, ghState, ghTs,
                   pPc, pLogin, pTodo, pCur, pNext, pEnq, pWrote, pFault,
                   gEnq, nGh, notQueue>>

DiscardKeyOfReviewOnly(keys, job) ==
    IF job.kind = "review" THEN keys \ {AgentJobKey(job)} ELSE keys

\* _agent_queue_keys.discard(key), the key being that of the job's kind and
\* arguments.
DiscardKey(keys, job) == keys \ {AgentJobKey(job)}

\* finally: the key is discarded under _agent_queue_lock.
RunnerRelease ==
    /\ rPc = "release"
    /\ qKeys' = DiscardKey(qKeys, rJob)
    /\ rPc' = "idle"
    /\ rJob' = NoJob
    /\ rPosted' = FALSE
    /\ IF rJob.kind = "review" THEN JobEnded(rJob.ticket) ELSE UNCHANGED <<gPrev, pTaint>>
    /\ UNCHANGED <<qQueue, tCol, tPr, rows, ghBody, ghState, ghTs,
                   pPc, pLogin, pTodo, pCur, pNext, pEnq, pWrote, pFault,
                   gEnq, nGh, notQueue>>

\* What can happen on GitHub: a reviewer posts a comment on the PR (a review
\* submission may have an empty body), a posted comment is edited, the PR is
\* merged or its latest review becomes APPROVED.
GhPosts ==
    { ch \in [kind : {"post"}, c : Cids, val : {"", "a"}] :
        /\ CommentAuthor(ch.c) # AgentLogin
        /\ ghBody[ch.c] = "none"
        /\ tPr[CommentPr(ch.c)]
        /\ (ch.val = "" => CommentEndpoint(ch.c) = "reviews") }

GhEdits ==
    { ch \in [kind : {"edit"}, c : Cids, val : {"b"}] : ghBody[ch.c] \in {"", "a"} }

GhCloses ==
    { ch \in [kind : {"close"}, c : Tickets, val : {"merged", "approved"}] :
        tPr[ch.c] /\ ghState[ch.c] = "open" }

GithubChange ==
    /\ nGh < MaxGhEvents
    /\ nGh' = nGh + 1
    /\ \E ch \in GhPosts \cup GhEdits \cup GhCloses :
         /\ ghBody' = IF ch.kind = "close" THEN ghBody
                       ELSE [ghBody EXCEPT ![ch.c] = ch.val]
         /\ ghState' = IF ch.kind = "close" THEN [ghState EXCEPT ![ch.c] = ch.val]
                        ELSE ghState
         /\ GhChanged(IF ch.kind = "close" THEN ch.c ELSE CommentPr(ch.c))
    /\ UNCHANGED <<qQueue, qKeys, rPc, rJob, rPosted, tCol, tPr, rows, ghTs,
                   pPc, pLogin, pTodo, pCur, pNext, pEnq, pWrote, pFault,
                   gEnq, notQueue>>

\* _poll_pr_review_comments begins: _gh_current_login once for the cycle, and
\* the list of in_review tickets that have a PR.
PollStart ==
    /\ pPc = "idle"
    /\ pTodo' = { t \in Tickets : tCol[t] = "in_review" /\ tPr[t] }
    /\ pTodo' # {}
    /\ pPc' = "pr"
    /\ \E resolved \in BOOLEAN : pLogin' = resolved
    /\ UNCHANGED <<qQueue, qKeys, rPc, rJob, rPosted, tCol, tPr, rows, ghBody, ghState, ghTs,
                   pCur, pNext, pEnq, pWrote, pFault, pTaint,
                   gPrev, gEnq, nGh, notQueue>>

\* The comments the three endpoints return, given the endpoints that answered.
Fetched(gh, pr, ok) ==
    { c \in CidsOf(pr) : gh[c] # "none" /\ CommentEndpoint(c) \in ok }

UpsertAsNewRow(rws, gh, cs) ==
    [c \in Cids |->
        IF c \in cs /\ gh[c] # ""
        THEN [body |-> gh[c], author |-> CommentAuthor(c), ts |-> ghTs[c],
              addressed_at |-> 0]
        ELSE rws[c]]

\* The upsert loop: a comment with an empty body is skipped; an existing row
\* gets body, author and comment timestamp rewritten and keeps addressed_at.
Upsert(rws, gh, cs) ==
    [c \in Cids |->
        IF c \in cs /\ gh[c] # ""
        THEN [body |-> gh[c], author |-> CommentAuthor(c), ts |-> ghTs[c],
              addressed_at |-> rws[c].addressed_at]
        ELSE rws[c]]

OwnComments(rws, pr, login) ==
    { c \in CidsOf(pr) : rws[c].body # "none" /\ rws[c].author = login }

\* Rows of the PR written by gh_login and not yet addressed.
OwnUnaddressed(rws, pr, login) ==
    { c \in CidsOf(pr) :
        rws[c].body # "none" /\ rws[c].author = login /\ rws[c].addressed_at = 0 }

MarkOwn(rws, cs) == [c \in Cids |-> IF c \in cs THEN Stamp(rws[c]) ELSE rws[c]]

\* The query for next_comment: unaddressed, non-empty, and if the login is
\* known not written by it.
Candidates(rws, pr, loginKnown) ==
    { c \in CidsOf(pr) :
        /\ rws[c].body \notin {"none", ""}
        /\ rws[c].addressed_at = 0
        /\ (loginKnown => rws[c].author # AgentLogin) }

\* nullslast(comment_created_at.desc()): row c comes before row d.
RankedBefore(rws, c, d) ==
    /\ rws[c].ts # 0
    /\ rws[d].ts = 0 \/ rws[c].ts > rws[d].ts

NextCommentOldest(rws, cands) ==
    IF cands = {} THEN {0}
    ELSE { c \in cands : \A d \in cands : ~RankedBefore(rws, c, d) }

\* order_by(...).limit(1).first(): the rows the query can return, 0 for
\* None; rows of equal rank come in an order the database chooses.
NextComment(rws, cands) ==
    IF cands = {} THEN {0}
    ELSE { c \in cands : \A d \in cands : ~RankedBefore(rws, d, c) }

ShouldTriggerWithoutLogin(next_comment, gh_login) == next_comment # 0

\* `if next_comment and gh_login`
ShouldTrigger(next_comment, gh_login) == next_comment # 0 /\ gh_login

PrClosedOnlyIfMerged(state, checkOk) == checkOk /\ state = "merged"

\* The merged check and the approved check: the gh api call answered and the
\* PR is merged, or else its latest review is APPROVED.
PrClosed(state, checkOk) == checkOk /\ state # "open"

\* One PR of the list, up to the choice of next_comment: the merged and
\* approved checks (either moves the ticket to done and goes to the next PR),
\* the fetch of the three endpoints, the upsert and its commit, the marking of
\* the agent's own comments, the query for next_comment.
PollPrWith(checkOk, commitOk, ownCommitOk, ok) ==
    /\ pPc = "pr"
    /\ LET t == CHOOSE u \in pTodo : \A v \in pTodo : u <= v IN
         /\ pCur' = t
         /\ IF PrClosed(ghState[t], checkOk) THEN
               /\ tCol' = IF commitOk THEN [tCol EXCEPT ![t] = "done"] ELSE tCol
               /\ rows' = rows
               /\ pNext' = 0
               /\ pPc' = "prEnd"
               /\ pFault' = ~commitOk
            ELSE
               LET r1 == Upsert(rows, ghBody, Fetched(ghBody, t, ok))
                   own == IF pLogin THEN OwnUnaddressed(r1, t, AgentLogin) ELSE {}
                   r2 == IF ownCommitOk THEN MarkOwn(r1, own) ELSE r1
               IN  \E next \in NextComment(r2, Candidates(r2, t, pLogin)) :
                   /\ tCol' = tCol
                   /\ rows' = IF commitOk THEN r2 ELSE rows
                   /\ pNext' = IF commitOk THEN next ELSE 0
                   /\ pPc' = IF commitOk /\ ShouldTrigger(next, pLogin)
                             THEN "trigger" ELSE "prEnd"
                   /\ pFault' = \/ ~commitOk
                                \/ ~checkOk /\ ghState[t] # "open"
                                \/ ~ownCommitOk /\ own # {}
                                \/ Fetched(ghBody, t, ok) # Fetched(ghBody, t, Endpoints)
    /\ pWrote' = (rows' # rows)
    /\ pEnq' = FALSE
    /\ pTaint' = "no"
    /\ UNCHANGED <<qQueue, qKeys, rPc, rJob, rPosted, tPr, ghBody, ghState, ghTs,
                   pLogin, pTodo, gPrev, gEnq, nGh, notQueue>>

\* Each gh call of the pass answers or fails, each commit goes through or is
\* rolled back.
PollPr ==
    \E checkOk \in BOOLEAN, commitOk \in BOOLEAN, ownCommitOk \in BOOLEAN,
       ok \in SUBSET Endpoints :
      PollPrWith(checkOk, commitOk, ownCommitOk, ok)

\* _trigger_review_agent for next_comment.
PollTrigger ==
    /\ pPc = "trigger"
    /\ Trigger(ReviewJob(pCur, pCur, pNext))
    /\ pEnq' = (qQueue' # qQueue)
    /\ gEnq' = IF qQueue' # qQueue THEN gEnq \cup {pNext} ELSE gEnq
    /\ pPc' = "prEnd"
    /\ UNCHANGED <<rPc, rJob, rPosted, tCol, tPr, rows, ghBody, ghState, ghTs,
                   pLogin, pTodo, pCur, pNext, pWrote, pFault, pTaint,
                   gPrev, nGh, notQueue>>

\* The loop goes to the next PR, or the cycle is over.
PollPrEnd ==
    /\ pPc = "prEnd"
    /\ gPrev' = [gPrev EXCEPT ![pCur] =
                    IF pTaint = "gh" THEN "none"
                    ELSE IF pTaint = "job" \/ pFault \/ ~pLogin THEN "ran"
                    ELSE "clean"]
    /\ pTodo' = pTodo \ {pCur}
    /\ pPc' = IF pTodo' = {} THEN "idle" ELSE "pr"
    /\ pLogin' = (pLogin /\ pTodo' # {})
    /\ pCur' = 0
    /\ pNext' = 0
    /\ pEnq' = FALSE
    /\ pWrote' = FALSE
    /\ pFault' = FALSE
    /\ pTaint' = "no"
    /\ UNCHANGED <<qQueue, qKeys, rPc, rJob, rPosted, tCol, tPr, rows, ghBody, ghState, ghTs,
                   gEnq, nGh, notQueue>>

NextQueue ==
    \/ PatchTicket
    \/ RunnerAgent
    \/ RunnerMark
    \/ RunnerRelease
    \/ GithubChange
    \/ PollStart
    \/ PollPr
    \/ PollTrigger
    \/ PollPrEnd

\* ------------------------------------------------------------------------
\* Job store (POST /api/worker/jobs/start, /complete, /fail) and its callers
\* ------------------------------------------------------------------------
MaxStoreJobs == 2

StoreJobIds == 1 .. MaxStoreJobs
Claimants == {1, 2}
Projects == {1, 2}

\* project_id of a claim: 0 stands for no filter.
Filters == {0} \cup Projects

NoCall == [op |-> "none", by |-> 0, filter |-> 0, job |-> 0, http |-> 0, seen |-> "none"]

\* Pending jobs a claim with the given filter can select.
PendingIn(js, filter) ==
    { j \in StoreJobIds :
        js[j].status = "pending" /\ (filter = 0 \/ js[j].project = filter) }

StoreClaimNewest(js, filter) ==
    IF PendingIn(js, filter) = {} THEN 0
    ELSE CHOOSE j \in PendingIn(js, filter) : \A k \in PendingIn(js, filter) : k <= j

\* The job a claim selects: the oldest pending one within the filter (ids
\* follow created_at), 0 if there is none.
StoreClaim(js, filter) ==
    IF PendingIn(js, filter) = {} THEN 0
    ELSE CHOOSE j \in PendingIn(js, filter) : \A k \in PendingIn(js, filter) : j <= k

\* complete / fail as the store applies them: 200 and the new status for a
\* running job, 409 and no change otherwise.
StoreReport(js, j, op) ==
    IF js[j].status = "running"
    THEN [http |-> 200,
          jobs |-> [js EXCEPT ![j].status = IF op = "complete" THEN "completed" ELSE "failed"]]
    ELSE [http |-> 409, jobs |-> js]

\* claim_job: None on 204 and on any exception (the request failed, or
\* raise_for_status() did), else the job of the response body.
ClaimJobReturns(http, job) == IF http = 200 THEN job ELSE 0

\* mark_complete / mark_fail: the response is dropped; the function returns
\* None whatever the status code was and raises nothing.
MarkReturns(http) == "none"

InitStore ==
    /\ stJobs = [j \in StoreJobIds |-> [status |-> "none", project |-> 0]]
    /\ stGot = [c \in Claimants |-> {}]
    /\ stReported = {}
    /\ stLast = NoCall

\* The backend enqueues a job: the next id, pending, for some project.
StoreCreate ==
    /\ \E j \in StoreJobIds, p \in Projects :
         /\ stJobs[j].status = "none"
         /\ \A k \in StoreJobIds : k < j => stJobs[k].status # "none"
         /\ stJobs' = [stJobs EXCEPT ![j] = [status |-> "pending", project |-> p]]
    /\ UNCHANGED <<stGot, stReported, stLast, notStore>>

\* A coordinator calls claim_job(base_url, pid) or claim_job(base_url).  The
\* store selects and marks the job running in one step; the response reaches
\* the caller, or the request times out on the way and claim_job returns None.
ClaimJob ==
    /\ \E c \in Claimants, filter \in Filters, arrives \in BOOLEAN :
         LET j == StoreClaim(stJobs, filter)
             http == IF ~arrives THEN 0 ELSE IF j = 0 THEN 204 ELSE 200
             got == ClaimJobReturns(http, j)
         IN  /\ stJobs' = IF j = 0 THEN stJobs
                          ELSE [stJobs EXCEPT ![j].status = "running"]
             /\ stGot' = IF got = 0 THEN stGot
                         ELSE [stGot EXCEPT ![c] = @ \cup {got}]
             /\ stLast' = [op |-> "claim", by |-> c, filter |-> filter, job |-> got,
                           http |-> http, seen |-> IF got = 0 THEN "none" ELSE "job"]
    /\ UNCHANGED <<stReported, notStore>>

\* _run_job, at the end of a job's run, calls mark_complete or mark_fail, once.
ReportJob ==
    /\ \E c \in Claimants, op \in {"complete", "fail"} :
         \E j \in stGot[c] \ stReported :
            LET res == StoreReport(stJobs, j, op) IN
            /\ stJobs' = res.jobs
            /\ stReported' = stReported \cup {j}
            /\ stLast' = [op |-> op, by |-> c, filter |-> 0, job |-> j,
                          http |-> res.http, seen |-> MarkReturns(res.http)]
    /\ UNCHANGED <<stGot, notStore>>

\* scripts/requeue_ticket.py: the pending and running jobs of a ticket are
\* marked failed.
RequeueTicket ==
    /\ \E j \in StoreJobIds :
         /\ stJobs[j].status \in {"pending", "running"}
         /\ stJobs' = [stJobs EXCEPT ![j].status = "failed"]
    /\ stLast' = NoCall
    /\ UNCHANGED <<stGot, stReported, notStore>>

NextStore == StoreCreate \/ ClaimJob \/ ReportJob \/ RequeueTicket

\* ------------------------------------------------------------------------
\* Specifications
\* ------------------------------------------------------------------------
\* The Director conversation: _agent_assess called turn after turn by one
\* loop, each call compacting director_messages before its request
\* ------------------------------------------------------------------------
MaxDirTurns == 5

\* user_msg_content carries the context or the new worker turn, and the plan
\* block when there is one.
UserShape == [chars |-> 42, toks |-> 9]

NewUserHasPlanOnFirstCall(phase, plan, director_messages) ==
    phase = "execution" /\ plan /\ director_messages = <<>>

\* `if is_execution and approved_plan_text:` plan_block is set, and both
\* forms of user_msg_content (first call, later calls) start with it.
NewUserHasPlan(phase, plan, director_messages) ==
    phase = "execution" /\ plan

NewUserMsg(turn, has_plan) ==
    [kind |-> "new_user", id |-> turn, role |-> "user",
     chars |-> UserShape.chars, toks |-> UserShape.toks, plan |-> has_plan]

AssistantMsg(turn, shape) ==
    [kind |-> "orig", id |-> turn, role |-> "assistant",
     chars |-> shape.chars, toks |-> shape.toks, plan |-> FALSE]

\* The message holds the full text of the approved plan.  A summary is the
\* summarizer's prose, or a transcript cut at 4000 characters.
HasPlan(msg) == msg.kind # "summary" /\ msg.kind # "system" /\ msg.plan

\* The first call of the loop: director_messages is empty.
InitDir ==
    /\ dPhase \in {"execution", "none"}
    /\ dPlan \in IF dPhase = "execution" THEN BOOLEAN ELSE {FALSE}
    /\ dTurn = 1
    /\ dReq = <<>>
    /\ cIn = <<>>
    /\ cOut = <<>>
    /\ cSystem = [kind |-> "system", id |-> 0, role |-> "system", chars |-> 20, toks |-> 5]
    /\ cNewUser = NewUserMsg(1, NewUserHasPlan(dPhase, dPlan, <<>>))
    /\ cLimit \in Budgets
    /\ cTiktoken \in BOOLEAN
    /\ cPc = "loop"
    /\ cSteps = 0

\* messages_for_api = [system] + compacted + [new_user_msg] is posted.
DirectorRequest ==
    /\ cPc = "done"
    /\ dReq' = FullMessages(cOut)
    /\ cPc' = "sent"
    /\ UNCHANGED <<cIn, cOut, cSystem, cNewUser, cLimit, cTiktoken, cSteps,
                   dPhase, dPlan, dTurn, notDir>>

\* The reply is appended (updated_director = compacted + [new_user_msg,
\* assistant_msg]) and the loop calls _agent_assess again after the next
\* worker turn.
DirectorReply ==
    /\ cPc = "sent"
    /\ dTurn < MaxDirTurns
    /\ \E shape \in MsgShapes :
         cIn' = cOut \o <<[cNewUser EXCEPT !.kind = "orig"], AssistantMsg(dTurn, shape)>>
    /\ cOut' = cIn'
    /\ cNewUser' = NewUserMsg(dTurn + 1, NewUserHasPlan(dPhase, dPlan, cIn'))
    /\ cPc' = "loop"
    /\ cSteps' = 0
    /\ dTurn' = dTurn + 1
    /\ UNCHANGED <<cSystem, cLimit, cTiktoken, dPhase, dPlan, dReq, notDir>>

NextDir ==
    \/ CompactReturn
    \/ CompactStep
    \/ DirectorRequest
    \/ DirectorReply

\* ------------------------------------------------------------------------
\* fetch_max_concurrent, one call on any answer of the settings API
\* ------------------------------------------------------------------------
InitFetch ==
    /\ fResp \in SettingResponses \cup StringValues
    /\ fFallback \in 1 .. MaxEnvConc
    /\ fOut = 0

FetchCall ==
    /\ fOut = 0
    /\ fOut' = FetchMaxConcurrent(fResp, fFallback)
    /\ UNCHANGED <<fResp, fFallback, notFetch>>

NextFetch == FetchCall

\* ------------------------------------------------------------------------
\* Worker adapter: the worker-native session of each orchestration session
\* ------------------------------------------------------------------------
MaxWorkerCalls == 3
MaxLines == 2

\* Orchestration session ids, and the session ids a worker can report.
SessionKeys == {1, 2}
NativeIds == {1, 2}

\* A line of the worker's stdout: not JSON (skipped), or a JSON event with a
\* sessionID (0: the event has none, or an empty one).
Events == [json : BOOLEAN, sid : {0} \cup NativeIds]

Outputs == UNION { [1 .. n -> Events] : n \in 0 .. MaxLines }

\* _parse_worker_output: the first non-empty sessionID of the event stream.
RECURSIVE Discovered(_)
Discovered(out) ==
    IF out = <<>> THEN 0
    ELSE IF Head(out).json /\ Head(out).sid # 0 THEN Head(out).sid
    ELSE Discovered(Tail(out))

WorkerCmdResumesWithoutFlag(resume, worker_session_id, session_id) ==
    IF worker_session_id # 0
    THEN [mode |-> "session", id |-> worker_session_id]
    ELSE [mode |-> "title", id |-> session_id]

\* The command line: `--session <native id>` when resume is set and an id is
\* recorded, `--title terarchitect-<session_id>` (a fresh worker session)
\* otherwise.
WorkerCmd(resume, worker_session_id, session_id) ==
    IF resume /\ worker_session_id # 0
    THEN [mode |-> "session", id |-> worker_session_id]
    ELSE [mode |-> "title", id |-> session_id]

NoWorkerCall ==
    [key |-> 0, resume |-> FALSE, cmd |-> [mode |-> "none", id |-> 0],
     ret |-> "none", seen |-> 0]

InitWork ==
    /\ wRec = [k \in SessionKeys |-> 0]
    /\ wLast = NoWorkerCall
    /\ wCalls = 0

\* One call of _send_to_worker_opencode: the recorded id is looked up, the
\* command is built and run; if it returns, its output is parsed and a
\* discovered session id is stored under session_id; a timeout returns
\* without parsing anything.
WorkerCall ==
    /\ wCalls < MaxWorkerCalls
    /\ wCalls' = wCalls + 1
    /\ \E key \in SessionKeys, resume \in BOOLEAN, ret \in {"returned", "timeout"},
          out \in Outputs :
         LET seen == IF ret = "returned" THEN Discovered(out) ELSE 0 IN
         /\ wLast' = [key |-> key, resume |-> resume,
                      cmd |-> WorkerCmd(resume, wRec[key], key),
                      ret |-> ret, seen |-> seen]
         /\ wRec' = IF seen # 0 THEN [wRec EXCEPT ![key] = seen] ELSE wRec
    /\ UNCHANGED notWork

NextWork == WorkerCall

\* ------------------------------------------------------------------------
\* One job thread of the coordinator with the environment it builds
\* (_run_job, job_to_env, _docker_run_args, _run_agent_direct).
\* A value of the environment is a sequence of pieces of text; <<>> is the
\* empty string.
MaxValueLen == 2

Schemes == {"http://", "https://", "ssh://"}

Loopbacks == {"localhost", "127.0.0.1"}

HostAlias == "host.docker.internal"

Pieces == Schemes \cup Loopbacks \cup {"example.com"}

Values == UNION { [1..n -> Pieces] : n \in 0..MaxValueLen }

\* `"x" in v` for one of the pieces of text
Contains(v, pieces) == \E i \in 1..Len(v) : v[i] \in pieces

\* v.replace("127.0.0.1", "host.docker.internal").replace("localhost", "host.docker.internal")
ReplaceLoopbacks(v) ==
    [i \in 1..Len(v) |-> IF v[i] \in Loopbacks THEN HostAlias ELSE v[i]]

ReplaceLocalhostOnly(v) ==
    [i \in 1..Len(v) |-> IF v[i] = "localhost" THEN HostAlias ELSE v[i]]

\* The body of the `for k, v in list(env.items())` loop under for_docker.
RewriteLoopbackLocalhostOnly(v) ==
    IF Contains(v, Loopbacks) /\ Contains(v, {"http://", "https://"})
    THEN ReplaceLocalhostOnly(v)
    ELSE v

RewriteLoopback(v) ==
    IF Contains(v, Loopbacks) /\ Contains(v, {"http://", "https://"})
    THEN ReplaceLoopbacks(v)
    ELSE v

EnvKeys == {"REPO_URL", "TERARCHITECT_API_URL", "VLLM_URL"}

\* The coordinator's own TERARCHITECT_API_URL, and the VLLM_URL the backend
\* sends in agent_env (<<>>: not set).
ApiUrls == { <<"http://", "localhost">>, <<"https://", "example.com">> }

AgentUrls == { <<>>, <<"http://", "127.0.0.1">>, <<"https://", "example.com">> }

ExecutionModes == {"local", "docker", "none"}

NoClaimedJob == [execution_mode |-> "none", repo_url |-> <<>>, api |-> <<>>, vllm |-> <<>>]

NoEnv == [k \in EnvKeys |-> <<>>]

\* job_to_env without the rewrite: REPO_URL from the job, TERARCHITECT_API_URL
\* from the coordinator's environment, agent_env on top where it is not empty.
GivenEnv(job) ==
    [k \in EnvKeys |->
        IF k = "REPO_URL" THEN job.repo_url
        ELSE IF k = "TERARCHITECT_API_URL" THEN job.api
        ELSE job.vllm]

\* job_to_env(job, for_docker)
JobToEnv(job, for_docker) ==
    IF for_docker
    THEN [k \in EnvKeys |-> RewriteLoopback(GivenEnv(job)[k])]
    ELSE GivenEnv(job)

InitRun ==
    /\ rjJob \in [execution_mode : ExecutionModes, repo_url : Values,
                  api : ApiUrls, vllm : AgentUrls]
    /\ rjRanOn = <<>>
    /\ rjEnv = NoEnv

\* _run_job: execution_mode == "local" runs the agent on the host with
\* job_to_env(job); anything else runs `docker run` with the -e pairs of
\* job_to_env(job, for_docker=True), and a failed docker run is not retried
\* on the host.
RunOneJob ==
    /\ rjRanOn = <<>>
    /\ IF rjJob.execution_mode = "local"
       THEN /\ rjRanOn' = Append(rjRanOn, "host")
            /\ rjEnv' = JobToEnv(rjJob, FALSE)
       ELSE /\ rjRanOn' = Append(rjRanOn, "docker")
            /\ rjEnv' = JobToEnv(rjJob, TRUE)
    /\ UNCHANGED <<rjJob, notRun>>

NextRun == RunOneJob

\* ------------------------------------------------------------------------
\* Ticket updates (ticket_detail PATCH) with the in-process runner, each
\* request recorded with its status.
NoPatch == [ticket |-> 0, col |-> "absent", has_nodes |-> FALSE,
            configured |-> FALSE, status |-> 0]

notPatchQueue == <<compVars, coordVars, sessVars, storeVars, dirVars, fetchVars,
                   workVars, runVars, lockVars>>

InitPatch ==
    /\ qQueue = <<>> /\ qKeys = {}
    /\ rPc = "idle" /\ rJob = NoJob /\ rPosted = FALSE
    /\ tCol \in [Tickets -> Columns]
    /\ tPr = [t \in Tickets |-> FALSE]
    /\ rows = [c \in Cids |-> NoRow]
    /\ ghBody = [c \in Cids |-> "none"]
    /\ ghState = [t \in Tickets |-> "open"]
    /\ ghTs = [c \in Cids |-> CommentTs(c)]
    /\ pPc = "idle" /\ pLogin = FALSE /\ pTodo = {} /\ pCur = 0 /\ pNext = 0
    /\ pEnq = FALSE /\ pWrote = FALSE /\ pFault = FALSE /\ pTaint = "no"
    /\ gPrev = [t \in Tickets |-> "none"] /\ gEnq = {}
    /\ nGh = 0
    /\ ptTick = FALSE
    /\ ptLast = NoPatch

\* One PATCH request of a ticket, handled by ticket_detail.
TicketUpdate ==
    /\ \E t \in Tickets, col \in Columns \cup {"absent"},
          has_nodes \in BOOLEAN, docker_image \in BOOLEAN, has_dockerfile \in BOOLEAN :
         /\ TicketDetailPatch(t, col, has_nodes, docker_image, has_dockerfile)
         /\ ptLast' = [ticket |-> t, col |-> col, has_nodes |-> has_nodes,
                       configured |-> docker_image \/ has_dockerfile,
                       status |-> PatchStatus(tCol[t], col, has_nodes,
                                              docker_image, has_dockerfile)]
    /\ ptTick' = ~ptTick
    /\ UNCHANGED <<rPc, rJob, rPosted, tPr, rows, ghBody, ghState, ghTs, pollVars,
                   gPrev, gEnq, nGh, notPatchQueue>>

NextPatch == TicketUpdate \/ RunnerAgent \/ RunnerRelease

\* ------------------------------------------------------------------------
\* _run_one_agent_job called by any number of threads: the statements of each
\* call around `with _agent_run_lock`.
MaxThreads == 3

RunnerThreads == 1 .. MaxThreads

LockAlwaysFree(holder) == TRUE

\* threading.Lock: acquire() goes through only while the lock is unlocked.
LockFree(holder) == holder = 0

InitLock ==
    /\ lkHolder = 0
    /\ lkPc = [th \in RunnerThreads |-> "idle"]
    /\ lkKind = [th \in RunnerThreads |-> "none"]

\* A thread calls _run_one_agent_job(app, kind, args) and computes the key.
ThreadCall ==
    /\ \E th \in RunnerThreads, kind \in {"ticket", "review"} :
         /\ lkPc[th] = "idle"
         /\ lkPc' = [lkPc EXCEPT ![th] = "waiting"]
         /\ lkKind' = [lkKind EXCEPT ![th] = kind]
    /\ UNCHANGED <<lkHolder, notLock>>

\* `with _agent_run_lock:` is entered.
ThreadAcquire ==
    /\ \E th \in RunnerThreads :
         /\ lkPc[th] = "waiting"
         /\ LockFree(lkHolder)
         /\ lkHolder' = th
         /\ lkPc' = [lkPc EXCEPT ![th] = "locked"]
    /\ UNCHANGED <<lkKind, notLock>>

\* Under the lock: the import of the agent fails (`return`: the lock is
\* released on the way out), or MiddleAgent() is built and process_ticket /
\* process_ticket_review begins.
ThreadImport ==
    /\ \E th \in RunnerThreads, importOk \in BOOLEAN :
         /\ lkPc[th] = "locked"
         /\ IF importOk
            THEN /\ lkPc' = [lkPc EXCEPT ![th] = "session"]
                 /\ lkHolder' = lkHolder
            ELSE /\ lkPc' = [lkPc EXCEPT ![th] = "finally"]
                 /\ lkHolder' = 0
    /\ UNCHANGED <<lkKind, notLock>>

\* The session returns or raises (AgentAPIError and Exception are caught
\* inside the with block); the with block is left and the lock released.
ThreadSessionEnd ==
    /\ \E th \in RunnerThreads :
         /\ lkPc[th] = "session"
         /\ lkHolder' = 0
         /\ lkPc' = [lkPc EXCEPT ![th] = IF lkKind[th] = "review" THEN "mark" ELSE "finally"]
    /\ UNCHANGED <<lkKind, notLock>>

\* _mark_pr_comment_addressed after a review job, outside the lock.
ThreadMark ==
    /\ \E th \in RunnerThreads :
         /\ lkPc[th] = "mark"
         /\ lkPc' = [lkPc EXCEPT ![th] = "finally"]
    /\ UNCHANGED <<lkHolder, lkKind, notLock>>

\* finally: the key is discarded and the call returns.
ThreadFinally ==
    /\ \E th \in RunnerThreads :
         /\ lkPc[th] = "finally"
         /\ lkPc' = [lkPc EXCEPT ![th] = "idle"]
         /\ lkKind' = [lkKind EXCEPT ![th] = "none"]
    /\ UNCHANGED <<lkHolder, notLock>>

NextLock ==
    \/ ThreadCall
    \/ ThreadAcquire
    \/ ThreadImport
    \/ ThreadSessionEnd
    \/ ThreadMark
    \/ ThreadFinally

\* ------------------------------------------------------------------------
\* The poller alone, started on a board in mid-life: the ticket is in review
\* with its PR; GitHub holds any of the comments, a comment's timestamp may be
\* missing or unparsable; each comment may have a row from an earlier pass
\* (also one since deleted on GitHub), addressed or not; a review job of the
\* PR may be waiting in the queue.
GhStates ==
    { g \in [Cids -> {"none", "", "a"}] :
        \A c \in Cids : g[c] = "" => CommentEndpoint(c) = "reviews" }

StoredRows(c, ts) ==
    {NoRow} \cup [body : {"a"}, author : {CommentAuthor(c)}, ts : {ts},
                  addressed_at : {0, 1}]

InitPoll ==
    /\ \E waiting \in BOOLEAN :
         /\ qQueue = IF waiting THEN <<ReviewJob(1, 1, 1)>> ELSE <<>>
         /\ qKeys = IF waiting THEN {AgentJobKey(ReviewJob(1, 1, 1))} ELSE {}
    /\ rPc = "off" /\ rJob = NoJob /\ rPosted = FALSE
    /\ tCol = [t \in Tickets |-> "in_review"]
    /\ tPr = [t \in Tickets |-> TRUE]
    /\ ghBody \in GhStates
    /\ ghTs \in [Cids -> 0 .. 3]
    /\ \A c \in Cids : ghTs[c] \in {0, CommentTs(c)}
    /\ ghTs[ReplyCid(1)] = CommentTs(ReplyCid(1))
    /\ rows \in [Cids -> UNION { StoredRows(c, ts) : c \in Cids, ts \in 0 .. 3 }]
    /\ \A c \in Cids : rows[c] \in StoredRows(c, ghTs[c])
    /\ \A c \in Cids : (ghBody[c] \in {"none", ""} /\ rows[c] = NoRow) => ghTs[c] = CommentTs(c)
    /\ ghBody[ReplyCid(1)] = "none" => rows[ReplyCid(1)] = NoRow
    /\ ghState = [t \in Tickets |-> "open"]
    /\ pPc = "idle" /\ pLogin = FALSE /\ pTodo = {} /\ pCur = 0 /\ pNext = 0
    /\ pEnq = FALSE /\ pWrote = FALSE /\ pFault = FALSE /\ pTaint = "no"
    /\ gPrev = [t \in Tickets |-> "none"] /\ gEnq = {}
    /\ nGh = 0

NextPoll ==
    \/ PollStart
    \/ PollPr
    \/ PollTrigger
    \/ PollPrEnd

\* ------------------------------------------------------------------------
\* A component that a specification does not run: nothing was called yet.
IdleCompact ==
    /\ cIn = <<>> /\ cOut = <<>>
    /\ cSystem = [kind |-> "system", id |-> 0, role |-> "system", chars |-> 0, toks |-> 0]
    /\ cNewUser = [kind |-> "new_user", id |-> 0, role |-> "user", chars |-> 0, toks |-> 0]
    /\ cLimit = 0 /\ cTiktoken = FALSE /\ cPc = "idle" /\ cSteps = 0

IdleCoord ==
    /\ coEnvMax = 1 /\ coMax = 1 /\ coPc = "off"
    /\ coRunning = {} /\ coAlive = {}
    /\ jobs = [j \in JobIds |-> [status |-> "none", mode |-> "docker"]]
    /\ coExit = [j \in JobIds |-> "none"]
    /\ coRanOn = [j \in JobIds |-> <<>>]
    /\ coReports = [j \in JobIds |-> <<>>]
    /\ coImages = {}

IdleSess ==
    /\ sKind = "ticket" /\ sPc = "off" /\ sEnd = "none" /\ sCancel = FALSE
    /\ sTurn = 0 /\ sResp = NoResp /\ sPrompt = "none" /\ sPlan = ""
    /\ sCol = "in_progress" /\ sHasPr = FALSE /\ sExecTurns = 0
    /\ sAccepted = FALSE /\ sObserved = FALSE /\ sEffects = {} /\ sAfterObs = {}
    /\ sLast = "none" /\ sSince = 0 /\ sReq = "none" /\ sPolled = FALSE
    /\ sFile = "unread"
    /\ sMem = NoMem
    /\ sHist = NoHist

IdleQueue ==
    /\ qQueue = <<>> /\ qKeys = {} /\ rPc = "off" /\ rJob = NoJob /\ rPosted = FALSE
    /\ tCol = [t \in Tickets |-> "done"] /\ tPr = [t \in Tickets |-> FALSE]
    /\ rows = [c \in Cids |-> NoRow] /\ ghBody = [c \in Cids |-> "none"]
    /\ ghState = [t \in Tickets |-> "open"]
    /\ ghTs = [c \in Cids |-> CommentTs(c)]
    /\ pPc = "off" /\ pLogin = FALSE /\ pTodo = {} /\ pCur = 0 /\ pNext = 0
    /\ pEnq = FALSE /\ pWrote = FALSE /\ pFault = FALSE /\ pTaint = "no"
    /\ gPrev = [t \in Tickets |-> "none"] /\ gEnq = {}
    /\ nGh = 0

IdleStore == InitStore

IdleDir == dPhase = "none" /\ dPlan = FALSE /\ dTurn = 0 /\ dReq = <<>>

IdleFetch == fResp = ErrorResp /\ fFallback = 1 /\ fOut = 0

IdleWork == wRec = [k \in SessionKeys |-> 0] /\ wLast = NoWorkerCall /\ wCalls = 0

IdleRun == rjJob = NoClaimedJob /\ rjRanOn = <<>> /\ rjEnv = NoEnv

IdlePatch == ptTick = FALSE /\ ptLast = NoPatch

IdleLock ==
    /\ lkHolder = 0
    /\ lkPc = [th \in RunnerThreads |-> "idle"]
    /\ lkKind = [th \in RunnerThreads |-> "none"]

InitSpecCompact == InitCompact /\ IdleCoord /\ IdleSess /\ IdleQueue /\ IdleStore /\ IdleDir /\ IdleFetch /\ IdleWork /\ IdleRun /\ IdlePatch /\ IdleLock

SpecCompact == InitSpecCompact /\ [][NextCompact]_vars

InitSpecCoord == InitCoord /\ IdleCompact /\ IdleSess /\ IdleQueue /\ IdleStore /\ IdleDir /\ IdleFetch /\ IdleWork /\ IdleRun /\ IdlePatch /\ IdleLock

SpecCoord == InitSpecCoord /\ [][NextCoord]_vars

InitSpecSess == InitSess /\ IdleCompact /\ IdleCoord /\ IdleQueue /\ IdleStore /\ IdleDir /\ IdleFetch /\ IdleWork /\ IdleRun /\ IdlePatch /\ IdleLock

SpecSess == InitSpecSess /\ [][NextSess]_vars

InitSpecQueue == InitQueue /\ IdleCompact /\ IdleCoord /\ IdleSess /\ IdleStore /\ IdleDir /\ IdleFetch /\ IdleWork /\ IdleRun /\ IdlePatch /\ IdleLock

SpecQueue == InitSpecQueue /\ [][NextQueue]_vars

InitSpecStore == InitStore /\ IdleCompact /\ IdleCoord /\ IdleSess /\ IdleQueue /\ IdleDir /\ IdleFetch /\ IdleWork /\ IdleRun /\ IdlePatch /\ IdleLock

SpecStore == InitSpecStore /\ [][NextStore]_vars

InitSpecPoll == InitPoll /\ IdleCompact /\ IdleCoord /\ IdleSess /\ IdleStore /\ IdleDir /\ IdleFetch /\ IdleWork /\ IdleRun /\ IdlePatch /\ IdleLock

SpecPoll == InitSpecPoll /\ [][NextPoll]_vars

InitSpecDir == InitDir /\ IdleCoord /\ IdleSess /\ IdleQueue /\ IdleStore /\ IdleFetch /\ IdleWork /\ IdleRun /\ IdlePatch /\ IdleLock

SpecDir == InitSpecDir /\ [][NextDir]_vars

InitSpecFetch ==
    InitFetch /\ IdleCompact /\ IdleCoord /\ IdleSess /\ IdleQueue /\ IdleStore /\ IdleDir /\ IdleWork /\ IdleRun /\ IdlePatch /\ IdleLock

SpecFetch == InitSpecFetch /\ [][NextFetch]_vars

InitSpecLock ==
    InitLock /\ IdleCompact /\ IdleCoord /\ IdleSess /\ IdleQueue /\ IdleStore /\ IdleDir /\ IdleFetch /\ IdleWork /\ IdleRun /\ IdlePatch

SpecLock == InitSpecLock /\ [][NextLock]_vars

InitSpecPatch ==
    InitPatch /\ IdleCompact /\ IdleCoord /\ IdleSess /\ IdleStore /\ IdleDir /\ IdleFetch /\ IdleWork /\ IdleRun /\ IdleLock

SpecPatch == InitSpecPatch /\ [][NextPatch]_vars

InitSpecRun ==
    InitRun /\ IdleCompact /\ IdleCoord /\ IdleSess /\ IdleQueue /\ IdleStore /\ IdleDir /\ IdleFetch /\ IdleWork /\ IdlePatch /\ IdleLock

SpecRun == InitSpecRun /\ [][NextRun]_vars

InitSpecWork ==
    InitWork /\ IdleCompact /\ IdleCoord /\ IdleSess /\ IdleQueue /\ IdleStore /\ IdleDir /\ IdleFetch /\ IdleRun /\ IdlePatch /\ IdleLock

SpecWork == InitSpecWork /\ [][NextWork]_vars

\* C9: the list the compactor returns fits the budget together with the system
\* prompt and the new user message, or holds fewer than one chunk of messages.
C9_CompactionBound ==
    cPc = "done" =>
        \/ CountTokens(FullMessages(cOut), cTiktoken) <= cLimit
        \/ Len(cOut) < ChunkSize

\* C9 witness: a chunk was summarized, the result fits the budget and a full
\* chunk is still left.
C9_Witness ==
    /\ cPc = "done"
    /\ cSteps >= 1
    /\ Len(cOut) >= ChunkSize
    /\ CountTokens(FullMessages(cOut), cTiktoken) <= cLimit

\* C10: every compaction step removes four original messages and leaves one
\* summary of its own, so after k steps 4k originals are gone and k summaries
\* stand, oldest first, before the untouched originals.
C10_WholeChunksRemoved ==
    cPc = "done" =>
        /\ CountKind(cOut, "summary") = cSteps
        /\ Len(cIn) - CountKind(cOut, "orig") = ChunkSize * cSteps
        /\ \A i \in 1..Len(cOut) :
              i <= cSteps => (cOut[i].kind = "summary" /\ cOut[i].id = i)

\* C5 as claimed: the jobs running at any moment number at most the
\* max_concurrent value most recently read.
C5_RunningWithinLatestCeiling == Cardinality(coAlive) <= coMax

\* C5 as amended: whenever the coordinator starts another run, the runs it then
\* tracks number at most the max_concurrent value most recently read, which is
\* at least 1; a value lowered later stops no run already started.
C5_StartsWithinCeiling ==
    [][Cardinality(coRunning') > Cardinality(coRunning)
         => (Cardinality(coRunning') <= coMax /\ coMax >= 1 /\ coAlive' \subseteq coRunning')]_vars

\* C5 witness: a run was started that fills a ceiling of two or more.
C5_Witness ==
    /\ coMax >= 2
    /\ Cardinality(coRunning) = coMax
    /\ coAlive = coRunning

\* C6: a claimed job whose run is over has exactly one outcome reported,
\* complete exactly when the exit code was 0; it was run once, and a container
\* job never on the host.
C6_OneOutcomeByExitCode ==
    \A j \in JobIds :
        (coExit[j] # "none" /\ j \notin coAlive) =>
            /\ Len(coReports[j]) = 1
            /\ (coReports[j][1] = "complete") <=> (coExit[j] = "zero")
            /\ Len(coRanOn[j]) = 1
            /\ jobs[j].mode = "docker" => coRanOn[j] = <<"docker">>

\* C3: in a ticket or setup session a complete verdict on execution turn 0 does
\* not end the execution loop: the step that acts on it sends the synthetic
\* prompt to the worker, and whenever a complete verdict has been accepted at
\* least one worker turn was issued inside the execution loop.
C3_CompleteOnTurn0NotAccepted ==
    /\ [](sKind \in {"ticket", "setup"} /\ sAccepted => sExecTurns >= 1)
    /\ [][(sKind \in {"ticket", "setup"} /\ sPc = "execDecide" /\ sTurn = 0
            /\ sResp.complete /\ sPc' # sPc)
           => (sPc' = "execSend" /\ sPrompt' = "synthetic" /\ ~sAccepted')]_vars

\* C3 witness: the turn-0 verdict was complete, the synthetic prompt went to the
\* worker and the loop is back at its top for turn 1.
C3_Witness ==
    /\ sKind \in {"ticket", "setup"}
    /\ sPc = "execTop" /\ sTurn = 1 /\ sExecTurns = 1
    /\ sResp.complete /\ sPrompt = "synthetic" /\ ~sAccepted

\* C4: once the session has observed the cancel flag it ends without Finalize:
\* no worker or Director call, no push, no PR, no PR comment and no column
\* change happens after the observation.
C4_CancelObservedMeansNoFinalize ==
    sObserved => (sAfterObs = {} /\ sEnd # "finalized" /\ sPc # "finalize")

\* Jobs with key k that are queued or running.
JobsWithKey(k) ==
    Cardinality({ i \in DOMAIN qQueue : AgentJobKey(qQueue[i]) = k })
    + (IF rPc \in {"mark", "release"} /\ AgentJobKey(rJob) = k THEN 1 ELSE 0)

TicketKey(t) == AgentJobKey(TicketJob(t))
ReviewKey(t) == AgentJobKey(ReviewJob(t, t, 0))

\* C1: for each ticket at most one ticket job, and for each (ticket, PR) at
\* most one review job, is queued or running; and a call of
\* _trigger_middle_agent or _trigger_review_agent made while such a job exists
\* leaves the queue, the keys, the runner and the comment rows as they were.
C1_OneJobPerKey ==
    /\ [](\A t \in Tickets : JobsWithKey(TicketKey(t)) <= 1 /\ JobsWithKey(ReviewKey(t)) <= 1)
    /\ [][\A t \in Tickets :
            (\/ /\ tCol[t] # "in_progress" /\ tCol'[t] = "in_progress"
                /\ JobsWithKey(TicketKey(t)) >= 1
             \/ /\ pPc = "trigger" /\ pPc' # "trigger" /\ pCur = t
                /\ JobsWithKey(ReviewKey(t)) >= 1)
            => UNCHANGED <<qQueue, qKeys, rPc, rJob, rows, gEnq>>]_vars

\* C1 witness: the poller called _trigger_review_agent for a comment while a
\* review job of the PR was queued, and put nothing.
C1_Witness ==
    /\ pPc = "prEnd" /\ pLogin /\ pNext # 0 /\ ~pEnq
    /\ \E i \in DOMAIN qQueue : qQueue[i].kind = "review"
    /\ JobsWithKey(ReviewKey(pCur)) = 1

\* C2: once a review job has been put for a comment, no later poll pass puts
\* another job for that comment.
C2_CommentEnqueuedOnce ==
    [][\A c \in gEnq :
          ~(pPc = "trigger" /\ pPc' = "prEnd" /\ pNext = c /\ Len(qQueue') > Len(qQueue))]_vars

ReviewJobsQueued(q) == Cardinality({ i \in DOMAIN q : q[i].kind = "review" })

\* C7: while a poll cycle whose gh_login is unresolved is under way, no review
\* job is put, no key is taken and _trigger_review_agent is not reached.
C7_NoLoginNoReviewJob ==
    [][(pPc # "idle" /\ ~pLogin) =>
         /\ ReviewJobsQueued(qQueue') <= ReviewJobsQueued(qQueue)
         /\ { k \in qKeys' : k.kind = "review" } \subseteq qKeys
         /\ gEnq' = gEnq
         /\ pPc' # "trigger"]_vars

\* C7 witness: a cycle with unresolved login found an unaddressed reviewer
\* comment on the PR and is done with the PR; nothing is queued.
C7_Witness ==
    /\ pPc = "prEnd" /\ ~pLogin /\ pNext # 0
    /\ rows[pNext].author = "human" /\ rows[pNext].addressed_at = 0
    /\ qQueue = <<>> /\ qKeys = {}

C11_WorkerFailureAbortsSession ==
    sLast \in {"nonzero", "missing"} => (sPc = "done" /\ sEnd = "worker_error")

\* What Finalize does to the repository, the PR and the ticket.
FinalizeMarks == {"push", "pr", "comment", "column"}

\* C12: once a Director call has failed, the session is over with the Director
\* API error: it has pushed nothing, created no PR, posted no comment and left
\* the ticket's column alone, and it makes no further call (no retry, no
\* worker turn, no Finalize).
C12_DirectorFailureEndsSession ==
    /\ [](sLast = "director_failed" =>
            /\ sPc = "done"
            /\ sEnd = "director_error"
            /\ sEffects \cap FinalizeMarks = {}
            /\ sCol = IF sKind = "review" THEN "in_review" ELSE "in_progress")
    /\ [][sLast = "director_failed" =>
            UNCHANGED <<sLast, sEffects, sCol, sHasPr, sPc, sEnd>>]_vars

\* C12 witness: the Director call failed in the execution loop, after worker
\* turns had been issued.
C12_Witness ==
    /\ sLast = "director_failed" /\ sEnd = "director_error"
    /\ sKind = "ticket" /\ sExecTurns >= 1 /\ sPlan # ""

\* C13: a first-time ticket is in "in review" only if its Finalize created a
\* PR, and a review session never changes the ticket's column.
C13_InReviewOnlyWithPr ==
    /\ (sKind # "review" /\ sCol = "in_review") => "pr" \in sEffects
    /\ sKind = "review" => ("column" \notin sEffects /\ sCol \in {"in_review", "done"})

\* C14: addressed_at of a row, once set, is never written again, and it is
\* set only by the runner after a review job for that comment that posted its
\* reply, or by the poller for a comment written by the agent's own login.
C14_AddressedOnceAndOnlyOnReply ==
    [][\A c \in Cids :
         /\ rows[c].addressed_at # 0 => rows'[c].addressed_at = rows[c].addressed_at
         /\ (rows[c].addressed_at = 0 /\ rows'[c].addressed_at # 0) =>
               \/ rPc = "mark" /\ rJob.cid = c /\ rPosted
               \/ pPc = "pr" /\ rows'[c].author = AgentLogin]_vars

C16_ClaimAtomicOldestPending ==
    /\ [](\A j \in StoreJobIds : Cardinality({ c \in Claimants : j \in stGot[c] }) <= 1)
    /\ [][\A j \in StoreJobIds :
            /\ (stJobs[j].status # "running" /\ stJobs'[j].status = "running") =>
                  /\ stLast'.op = "claim"
                  /\ stLast'.job \in {0, j}
                  /\ j \in PendingIn(stJobs, stLast'.filter)
                  /\ \A k \in PendingIn(stJobs, stLast'.filter) : j <= k
            /\ \A c \in Claimants : (j \in stGot'[c] /\ j \notin stGot[c]) =>
                  /\ stJobs[j].status = "pending"
                  /\ stJobs'[j].status = "running"
                  /\ \A d \in Claimants : j \notin stGot[d]]_vars
    /\ [][(/\ stLast'.op = "claim"
           /\ (stLast' # stLast \/ stGot' # stGot)
           /\ PendingIn(stJobs, stLast'.filter) = {}) =>
              (stLast'.job = 0 /\ stJobs' = stJobs /\ stGot' = stGot)]_vars

\* C16 witness: two claimants hold one job each; the first claimed the newer
\* job through its project filter while the older job, of the other project,
\* was pending; the second then got the older job.
C16_Witness ==
    /\ stGot[1] = {2} /\ stGot[2] = {1}
    /\ stJobs[1].project # stJobs[2].project
    /\ stLast.op = "claim" /\ stLast.by = 2 /\ stLast.job = 1
    /\ stJobs[1].status = "running" /\ stJobs[2].status = "running"

\* C17: a complete or fail call for a job that is not running is answered with
\* the conflict status, leaves the job's status as it was, and its caller
\* gets to see the conflict.
C17_ReportOfNonRunningJobRejected ==
    [][\A j \in StoreJobIds :
         (j \in stReported' \ stReported /\ stJobs[j].status # "running") =>
            /\ stJobs' = stJobs
            /\ stLast'.job = j
            /\ stLast'.http = 409
            /\ stLast'.seen = "conflict"]_vars

\* C18 as stated: a review session accepts completion only after a worker
\* turn issued inside its loop.
C18_ReviewCompleteOnTurn0NotAccepted ==
    (sKind = "review" /\ sAccepted) => sTurn >= 1

\* C18: in a review session a complete verdict ends the loop on whatever
\* iteration it comes, the first included, with no further worker turn; the
\* worker turn that carried the reviewer comment was issued before it.
C18_ReviewCompleteEndsLoopAfterCommentTurn ==
    /\ []((sKind = "review" /\ sAccepted) => "worker" \in sEffects)
    /\ [][(sKind = "review" /\ sPc = "rvDecide" /\ sResp.complete /\ sPc' # sPc) =>
            /\ sPc' = "rvReply"
            /\ sAccepted'
            /\ "worker" \in sEffects
            /\ UNCHANGED <<sEffects, sTurn>>]_vars

\* C18 witness: the Director's first verdict of a review session was complete
\* and was accepted; the comment turn is the session's only worker turn.
C18_Witness ==
    /\ sKind = "review" /\ sPc = "rvReply" /\ sAccepted /\ sTurn = 0
    /\ sResp.complete /\ "worker" \in sEffects

\* C19: the cancel flag is read between any two consecutive worker calls of a
\* session; setting the flag changes nothing else (the session's position
\* and its call in progress are left alone); at most one worker call is
\* started after the flag was set, and once the session has read the flag as
\* set it issues no worker and no Director turn.
C19_CancelCooperative ==
    /\ [](sSince <= 1)
    /\ [](sAfterObs \cap {"worker", "director"} = {})
    /\ [][(sPc \in WorkerPcs /\ sPc' # sPc /\ "worker" \in sEffects) => sPolled]_vars
    /\ [][sCancel' # sCancel =>
            UNCHANGED <<sPc, sEnd, sTurn, sEffects, sLast, sResp, sCol>>]_vars

\* C19 witness: the flag was set after the check that precedes the research
\* turn; that turn ran to its end, the next check read the flag and the
\* session stopped.
C19_Witness ==
    /\ sKind = "ticket" /\ sCancel /\ sObserved /\ sSince = 1
    /\ sPc = "done" /\ sEnd = "cancelled" /\ sLast = "ok"

\* C20: a cancel request made for a ticket whose job is queued or running
\* leaves the flag set, from the request on; a session whose ticket got the
\* request before the session started issues no worker turn.
C20_CancelRequestKept ==
    /\ sReq # "none" => sCancel
    /\ sReq = "no_session" => "worker" \notin sEffects

\* Rows of the PR a review job may be put for: unaddressed, with a non-empty
\* body, not written by the agent.
Eligible(rws, pr) ==
    { c \in CidsOf(pr) :
        /\ rws[c].body \notin {"none", ""}
        /\ rws[c].addressed_at = 0
        /\ rws[c].author # AgentLogin }

\* C21: in the pass over one PR the poller puts at most one review job, and
\* the comment it is put for is, among the PR's unaddressed comments with a
\* non-empty body that the agent did not write, one with the most recent
\* timestamp, a comment without timestamp coming after every dated one.
C21_OneJobForMostRecentComment ==
    /\ [][(pPc = "pr" /\ pPc' = "trigger") =>
            /\ pNext' \in Eligible(rows', pCur')
            /\ \A d \in Eligible(rows', pCur') : rows'[d].ts <= rows'[pNext'].ts]_vars
    /\ [][qQueue' # qQueue =>
            /\ pPc = "trigger" /\ ~pEnq /\ pEnq'
            /\ qQueue' = Append(qQueue, ReviewJob(pCur, pCur, pNext))]_vars
    /\ [][pPc' = "trigger" => ~pEnq']_vars

C21_Witness ==
    /\ pPc = "prEnd" /\ pEnq
    /\ Eligible(rows, pCur) = {1, 2}
    /\ rows[1].ts = 1 /\ rows[2].ts = 0
    /\ qQueue = <<ReviewJob(pCur, pCur, 1)>>

\* C22: in a ticket session Execution starts only after a Director verdict
\* plan_approved = true (the turn bound of the plan-review loop cannot be
\* exhausted by the time of the first verdict): a verdict plan_approved =
\* false is followed by a revision turn of the worker and another verdict.
C22_ExecutionOnlyAfterApproval ==
    (sKind = "ticket" /\ sPc = "execTop" /\ sExecTurns = 0 /\ sTurn = 0)
        => sResp.approved

\* C23: when plan review ended without approval, the plan text Execution
\* starts with is the plan file's contents if the file has text, and
\* otherwise the last worker output (which may be empty).
C23_UnapprovedPlanIsFileElseLastOutput ==
    (sKind = "ticket" /\ sPc = "execTop" /\ sExecTurns = 0 /\ sTurn = 0
        /\ ~sResp.approved)
        => IF sFile = "text" THEN sPlan = "file" ELSE sPlan \in {"last_output", ""}

\* The phase a position of process_ticket belongs to, and the phases' order.
Phase(pc) ==
    CASE pc \in {"begin", "precheck"} -> "start"
      [] pc = "research" -> "research"
      [] pc \in {"planGate", "plan"} -> "plan"
      [] pc \in {"prTop", "prAssess", "prApply", "prAskPlan"} -> "plan_review"
      [] pc \in {"setupTurn", "execTop", "execAssess", "execDecide", "execSend"} -> "execution"
      [] pc = "finalize" -> "finalize"
      [] OTHER -> "ended"

PhaseRank(ph) ==
    CASE ph = "start" -> 0
      [] ph = "research" -> 1
      [] ph = "plan" -> 2
      [] ph = "plan_review" -> 3
      [] ph = "execution" -> 4
      [] ph = "finalize" -> 5
      [] OTHER -> 6

\* A session of process_ticket goes from phase to phase in the order
\* research, plan, plan-review, execution, finalize, skipping none (a setup
\* session goes from the start to execution); the research position and the
\* plan position are each left by one worker turn and never entered again.
PhasesInOrder ==
    [][sKind # "review" /\ sPc' # sPc =>
         LET from == PhaseRank(Phase(sPc))
             to == PhaseRank(Phase(sPc'))
         IN  /\ to >= from
             /\ \/ to \in {from, from + 1}
                \/ sPc' = "done" /\ sEnd' # "finalized"
                \/ sKind = "setup" /\ from = 0 /\ to = 4
             /\ sPc \in {"research", "plan"} =>
                  /\ "worker" \in sEffects'
                  /\ sLast' \in WorkerOutcomes
                  /\ to > from]_vars

SetupSkipsPlanning ==
    [](sKind = "setup" =>
         /\ Phase(sPc) \notin {"research", "plan", "plan_review"}
         /\ sPlan = "" /\ sFile = "unread")

WorkerNext(pc) ==
    CASE pc = "research" -> "planGate"
      [] pc = "plan" -> "prTop"
      [] pc \in {"setupTurn", "prAskPlan", "execSend"} -> "execTop"
      [] OTHER -> "rvTop"

C26_PlanInEveryExecutionRequest ==
    /\ [](dPhase = "execution" /\ dPlan /\ cPc = "sent" =>
            /\ \E i \in 1 .. Len(dReq) : HasPlan(dReq[i])
            /\ HasPlan(dReq[Len(dReq)]))
    /\ [][dPhase = "execution" /\ dPlan /\ cPc = "loop" /\ cPc' \in {"loop", "done"} =>
            (cNewUser' = cNewUser /\ HasPlan(cNewUser))]_vars

\* The request of the fifth call: the history was compacted in two earlier
\* calls and no message of it holds the plan any more.
C26_Witness ==
    /\ dPhase = "execution" /\ dPlan /\ cPc = "sent" /\ dTurn = 5
    /\ Len(dReq) >= 3
    /\ dReq[2].kind = "summary"
    /\ cSteps = 1
    /\ \A i \in 1 .. Len(dReq) - 1 : ~HasPlan(dReq[i])
    /\ HasPlan(dReq[Len(dReq)])

\* The integers int() reads the answer's value as: n for a JSON integer n or
\* for a string that, stripped, is a literal of n; none otherwise.
ReadsAs(resp) ==
    IF resp.kind = "int" THEN {resp.n}
    ELSE IF resp.kind = "str" /\ IsIntLiteral(Strip(resp.s)) THEN {IntOf(Strip(resp.s))}
    ELSE {}

\* C27: fetch_max_concurrent returns max(1, n) when the request succeeded
\* and the setting is a non-empty value that parses as the integer n, and the
\* fallback, unchanged, in every other case: request or HTTP error, key
\* absent, null, empty or blank string, a value that is no integer.
C27_FetchReturnsClampedSettingOrFallback ==
    /\ fOut # 0 =>
         IF ReadsAs(fResp) # {}
         THEN \E n \in ReadsAs(fResp) : fOut = (IF n < 1 THEN 1 ELSE n)
         ELSE fOut = fFallback
    /\ (fOut # 0 /\ fResp.kind \in {"error", "absent", "null", "empty", "nonint"})
         => fOut = fFallback
    /\ (fOut # 0 /\ fResp.kind = "str"
          /\ Strip(fResp.s) \in {<<>>, <<"x">>, <<"-">>, <<"1", " ", "2">>})
         => fOut = fFallback

C27_Witness ==
    /\ fResp.kind = "str" /\ fResp.s = <<" ", "-", "2">>
    /\ fFallback = 2 /\ fOut = 1

\* C28: a call with resume set for a session that has a recorded native id
\* runs the worker with exactly that id; a call without resume, or for a
\* session with no recorded id, starts a fresh worker session; the id the
\* worker reports in a call is recorded under the session's own key, no other
\* key is touched, and a call that reports none leaves the records as they
\* were.
C28_ResumeUsesRecordedNativeId ==
    [][wCalls' # wCalls =>
         LET k == wLast'.key IN
         /\ (wLast'.resume /\ wRec[k] # 0) =>
               wLast'.cmd = [mode |-> "session", id |-> wRec[k]]
         /\ (~wLast'.resume \/ wRec[k] = 0) =>
               wLast'.cmd = [mode |-> "title", id |-> k]
         /\ wRec'[k] = IF wLast'.seen # 0 THEN wLast'.seen ELSE wRec[k]
         /\ \A j \in SessionKeys \ {k} : wRec'[j] = wRec[j]]_vars

\* Two sessions with different native ids, the second call of session 2
\* resuming the id its first call reported.
C28_Witness ==
    /\ wCalls = 3
    /\ wRec[1] = 1 /\ wRec[2] = 2
    /\ wLast.key = 2 /\ wLast.resume
    /\ wLast.cmd = [mode |-> "session", id |-> 2]

\* A URL on the loopback host, of any scheme / of the schemes http and https.
IsLoopbackUrl(v) == Len(v) >= 2 /\ v[1] \in Schemes /\ v[2] \in Loopbacks

IsHttpLoopbackUrl(v) ==
    Len(v) >= 2 /\ v[1] \in {"http://", "https://"} /\ v[2] \in Loopbacks

\* passed is given with every loopback host replaced by the host alias.
RewrittenToAlias(given, passed) ==
    /\ Len(passed) = Len(given)
    /\ \A i \in 1..Len(given) :
          passed[i] = IF given[i] \in Loopbacks THEN HostAlias ELSE given[i]

\* A job of a local project runs on the host only, with its environment as
\* given; any other job runs in a container only.
RunsWhereConfigured ==
    /\ rjJob.execution_mode = "local" =>
          /\ rjRanOn \in {<<>>, <<"host">>}
          /\ rjRanOn # <<>> => rjEnv = GivenEnv(rjJob)
    /\ rjJob.execution_mode # "local" => rjRanOn \in {<<>>, <<"docker">>}

TicketJobsQueued(q, t) == Cardinality({ i \in 1..Len(q) : q[i] = TicketJob(t) })

\* This step puts a ticket job of t on the queue.
EnqueuesTicketJob(t) == TicketJobsQueued(qQueue', t) > TicketJobsQueued(qQueue, t)

\* This step is a ticket update that moves t into in_progress from another
\* column.
MovesIntoInProgress(t) ==
    /\ ptTick' # ptTick /\ ptLast'.ticket = t
    /\ tCol[t] # "in_progress" /\ tCol'[t] = "in_progress"

\* A rejected update leaves the ticket and the queue as they were, and an
\* update of a ticket already in in_progress enqueues nothing.
RejectedOrSameColumnEnqueuesNothing ==
    /\ (ptTick' # ptTick /\ ptLast'.status = 400) =>
          /\ UNCHANGED <<tCol, tPr, qQueue, qKeys>>
          /\ ptLast'.col = "in_progress"
          /\ ~ptLast'.has_nodes \/ ~ptLast'.configured
    /\ (ptTick' # ptTick /\ ptLast'.col = "in_progress"
            /\ (~ptLast'.has_nodes \/ ~ptLast'.configured)
            /\ tCol[ptLast'.ticket] # "in_progress") => ptLast'.status = 400
    /\ (ptTick' # ptTick /\ tCol[ptLast'.ticket] = "in_progress") =>
          UNCHANGED <<qQueue, qKeys>>

\* C30 as stated: a ticket job is enqueued exactly in the steps in which a
\* ticket update moves the ticket into in_progress from another column; a
\* rejected update changes nothing and an update of a ticket already in
\* in_progress enqueues nothing.
C30_EnqueuedExactlyOnMove ==
    [][/\ \A t \in Tickets : EnqueuesTicketJob(t) <=> MovesIntoInProgress(t)
       /\ RejectedOrSameColumnEnqueuesNothing]_vars

\* C30 amended: a ticket job is enqueued exactly in the steps in which a
\* ticket update moves the ticket into in_progress from another column while
\* no ticket job of that ticket is queued or running; a rejected update
\* changes nothing and an update of a ticket already in in_progress enqueues
\* nothing.
C30_EnqueuedExactlyOnMoveWithFreeKey ==
    [][/\ \A t \in Tickets :
             EnqueuesTicketJob(t) <=>
                 (MovesIntoInProgress(t) /\ AgentJobKey(TicketJob(t)) \notin qKeys)
       /\ RejectedOrSameColumnEnqueuesNothing]_vars

\* C30 witness: the last update moved the ticket into in_progress and its job
\* is on the queue, after an earlier job of the ticket had run to its end.
C30_Witness ==
    /\ ptLast = [ticket |-> 1, col |-> "in_progress", has_nodes |-> TRUE,
                 configured |-> TRUE, status |-> 200]
    /\ tCol[1] = "in_progress"
    /\ qQueue = <<TicketJob(1)>>
    /\ rPc = "idle"
    /\ tPr[1]

\* Where the flow goes after the memory retrieval made at a position.
RetrieveNext(pc, kind) ==
    CASE pc = "precheck" -> FirstPc(kind)
      [] pc = "prTop" -> "prAssess"
      [] pc = "execTop" -> "execAssess"
      [] OTHER -> "rvAssess"

\* C31: a failed memory retrieval or a failed indexing of the completion
\* memory never ends the session: the failure is logged, a failed retrieval
\* returns no passages, and the flow goes on to the step that follows the
\* call whatever its outcome: the first worker turn or the Director call after
\* a retrieval, Finalize with the accepted verdict after the indexing.
C31_MemoryFailureIsNotFatal ==
    /\ [](sEnd # "memory_error")
    /\ [][(sPc' # sPc /\ sMem'.op = "retrieve"
            /\ sPc \in {"precheck", "prTop", "execTop", "rvTop"}) =>
              /\ sPc' = RetrieveNext(sPc, sKind) /\ sEnd' = "none"
              /\ sMem'.outcome = "failed" => (sMem'.logged /\ ~sMem'.passages)]_vars
    /\ [][(sPc = "execDecide" /\ AcceptsComplete(sResp, sTurn) /\ sPc' # sPc) =>
              /\ sMem'.op = "index"
              /\ sPc' = "finalize" /\ sEnd' = "none" /\ sAccepted'
              /\ sMem'.outcome = "failed" => sMem'.logged]_vars

\* C31 witness: the retrieval of an execution-loop iteration after the first
\* failed, and the session is at the Director call of that iteration.
C31_Witness ==
    /\ sKind = "ticket" /\ sPc = "execAssess" /\ sTurn = 1
    /\ sMem = MemoryCall("retrieve", "failed")
    /\ sEnd = "none"

\* C32: the compactor leaves the system prompt, the newest user message and
\* the caller's list as they were, summarizes none of the first two, and the
\* list it works on is the caller's list itself or one summary followed by the
\* not yet summarized messages of the caller's list, unchanged and in their
\* order.
C32_CompactorFrame ==
    /\ [][cSystem' = cSystem /\ cNewUser' = cNewUser /\ cIn' = cIn]_vars
    /\ [](/\ \A i \in 1..Len(cOut) : cOut[i].kind \in {"orig", "summary"}
          /\ cSteps = 0 => cOut = cIn
          /\ cSteps > 0 =>
                /\ Len(cOut) >= 1 /\ Len(cOut) <= Len(cIn)
                /\ Head(cOut).kind = "summary"
                /\ Tail(cOut) = SubSeq(cIn, Len(cIn) - Len(cOut) + 2, Len(cIn)))

\* C32 witness: the compactor returned after two summaries with an original
\* message left behind the summary.
C32_Witness ==
    /\ cPc = "done" /\ cSteps = 2
    /\ Len(cOut) = 2 /\ cOut[2] = cIn[Len(cIn)]
    /\ dPhase = "none"

\* C33: in every state of a session, so at every Director assessment and
\* after every worker turn, prompt_history and conversation_history have the
\* same length and the output at each index is the one the worker produced
\* for the prompt at that index; the two lists grow by one entry per worker
\* turn that returned.
C33_HistoriesPaired ==
    /\ [](/\ Len(sHist.prompt_history) = Len(sHist.conversation_history)
          /\ \A i \in 1..Len(sHist.prompt_history) :
                sHist.conversation_history[i] = sHist.prompt_history[i]
          /\ sPc \in {"prAssess", "execAssess", "rvAssess"} =>
                Len(sHist.prompt_history) = sHist.calls)
    /\ [][(sPc \in WorkerPcs /\ sPc' \notin {sPc, "done"}) =>
             /\ Len(sHist'.prompt_history) = sHist'.calls
             /\ sHist'.conversation_history[sHist'.calls] = sHist'.calls]_vars

\* C33 witness: a ticket session is at the Director's assessment of its second
\* execution iteration with research, plan, the turn that output the plan and
\* one execution turn in both histories.
C33_Witness ==
    /\ sKind = "ticket" /\ sPc = "execAssess" /\ sTurn = 1
    /\ sHist.prompt_history = <<1, 2, 3, 4>>
    /\ sHist.conversation_history = <<1, 2, 3, 4>>

\* ------------------------------------------------------------------------
\* The background loop (_run_agent_and_poll_loop) on a ticket that stays in
\* review: poll passes and review jobs, reviewers posting and editing
\* comments, no merge and no approval.
InitReview ==
    /\ qQueue = <<>> /\ qKeys = {}
    /\ rPc = "idle" /\ rJob = NoJob /\ rPosted = FALSE
    /\ tCol = [t \in Tickets |-> "in_review"]
    /\ tPr = [t \in Tickets |-> TRUE]
    /\ rows = [c \in Cids |-> NoRow]
    /\ ghBody = [c \in Cids |-> IF c = 1 THEN "a" ELSE "none"]
    /\ ghState = [t \in Tickets |-> "open"]
    /\ ghTs = [c \in Cids |-> CommentTs(c)]
    /\ pPc = "idle" /\ pLogin = FALSE /\ pTodo = {} /\ pCur = 0 /\ pNext = 0
    /\ pEnq = FALSE /\ pWrote = FALSE /\ pFault = FALSE /\ pTaint = "no"
    /\ gPrev = [t \in Tickets |-> "none"] /\ gEnq = {}
    /\ nGh = 0

\* The comments that are not the agent's.
ReviewerCids == { c \in Cids : CommentAuthor(c) # AgentLogin }

\* A reviewer posts a comment; the PR stays open.
ReviewerComment ==
    /\ GithubChange
    /\ ghState' = ghState
    /\ \A c \in Cids : ghBody[c] = "none" \/ ghBody'[c] = ghBody[c]

NextReview ==
    \/ ReviewerComment
    \/ PollStart
    \/ PollPr
    \/ PollTrigger
    \/ PollPrEnd
    \/ RunnerAgent
    \/ RunnerMark
    \/ RunnerRelease

\* _run_one_agent_job from get_nowait to the end of its finally block.
RunnerStep == RunnerAgent \/ RunnerMark \/ RunnerRelease

\* The loop thread never stops: after every sleep it runs a poll pass when
\* one is due and then takes one job from the queue, and every call it makes
\* returns.  gh and the database do not fail for ever: again and again
\* _gh_current_login resolves, a pass over the PR commits what it fetched,
\* the agent package is imported and _mark_pr_comment_addressed commits.
FairReview ==
    /\ WF_vars(PollStart \/ PollTrigger \/ PollPrEnd)
    /\ WF_vars(PollPrWith(TRUE, TRUE, TRUE, Endpoints))
    /\ WF_vars(RunnerStep)
    /\ SF_vars(PollStart /\ pLogin')
    /\ SF_vars(pLogin /\ PollPrWith(TRUE, TRUE, TRUE, Endpoints))
    /\ SF_vars(RunnerAgent /\ rPc' = "mark")
    /\ SF_vars(RunnerMark /\ rows'[rJob.cid].addressed_at # 0)

InitSpecReview == InitReview /\ IdleCompact /\ IdleCoord /\ IdleSess /\ IdleStore /\ IdleDir /\ IdleFetch /\ IdleWork /\ IdleRun /\ IdlePatch /\ IdleLock

SpecReview == InitSpecReview /\ [][NextReview]_vars /\ FairReview

SessStep ==
    \/ SessBegin \/ SessPrecheck \/ FirstWorkerTurn
    \/ PlanGate \/ PlanTurn \/ PlanReviewTop \/ PlanReviewAssess \/ PlanReviewApply
    \/ PlanAskWorker
    \/ ExecTop \/ ExecAssess \/ ExecDecide \/ ExecSend
    \/ ReviewTop \/ ReviewAssess \/ ReviewDecide \/ ReviewSend \/ ReviewReply
    \/ Finalize

SpecSessFair == InitSpecSess /\ [][NextSess]_vars /\ WF_vars(SessStep)

\* The iteration of the execution loop or of the review loop that the session
\* is in has a number below the loop's max_turns.
InLoopIteration ==
    /\ sPc \in {"execAssess", "execDecide", "execSend"} => sTurn < MaxExecTurns
    /\ sPc \in {"rvAssess", "rvDecide", "rvSend"} => sTurn < MaxReviewTurns

\* C35: with every worker and Director call returning, every session ends,
\* whatever the Director answers; the execution loop issues at most max_turns
\* worker turns, the review loop makes at most its max_turns iterations, and
\* the plan-review loop is entered once, after the planning turn, and never
\* goes back to its top (one iteration, below its bound of 50).
C35_SessionTerminatesWithinBounds ==
    /\ [](sExecTurns <= MaxExecTurns /\ InLoopIteration)
    /\ [][(sPc # "prTop" /\ sPc' = "prTop") => sPc = "plan"]_vars
    /\ <>(sPc = "done")

\* A ticket session that used up the execution loop, and a review session
\* that used up the review loop, have ended.
C35_Witness ==
    /\ sPc = "done"
    /\ sEnd = "finalized"
    /\ ~sCancel
    /\ ~sAccepted
    /\ \/ sKind = "ticket" /\ sExecTurns = MaxExecTurns
       \/ sKind = "review" /\ sTurn = MaxReviewTurns

\* ------------------------------------------------------------------------
\* One call of _compact_director_messages whose summarizer calls all return
\* (an answer, or the exception that the truncation fallback catches).
SpecCompactFair == InitSpecCompact /\ [][NextCompact]_vars /\ WF_vars(NextCompact)

\* C36: the compaction loop returns for every input, budget and token
\* counter, whatever the summarizer answers (a summary longer than its chunk
\* and the truncated transcript of a failed call included); each pass takes
\* ChunkSize messages for one summary, so the summarizer is called at most
\* once per ChunkSize - 1 input messages, and never more often than there are
\* input messages.
C36_CompactionTerminates ==
    /\ [](cSteps <= Len(cIn) /\ cSteps * (ChunkSize - 1) <= Len(cIn))
    /\ <>(cPc = "done")

\* The loop has returned after two summarizer calls whose summaries were
\* longer than the chunks they replaced.
C36_Witness ==
    /\ cPc = "done"
    /\ cSteps = 2
    /\ \A i \in 1 .. Len(cIn) : cIn[i].toks = 1
    /\ cOut[1].toks > ChunkSize

\* ------------------------------------------------------------------------
\* The in-process queue with a runner whose agent calls all return or raise:
\* _run_one_agent_job goes on to its finally block.
SpecQueueFair == InitSpecQueue /\ [][NextQueue]_vars /\ WF_vars(RunnerStep)

\* The jobs the queue can hold.
QueueJobs ==
    { TicketJob(t) : t \in Tickets } \cup { ReviewJob(CommentPr(c), CommentPr(c), c) : c \in ReviewerCids }

\* C37: a job the runner has taken from the queue gives its key back,
\* whether the import failed, the session returned, or it raised (logged and
\* swallowed); no key stays held without a queued or running job of that key,
\* so a later enqueue under the same key is accepted.
C37_KeyEventuallyReleased ==
    /\ \A job \in QueueJobs : (rJob = job) ~> (AgentJobKey(job) \notin qKeys)
    /\ [](\A k \in qKeys :
            \/ rPc # "idle" /\ k = AgentJobKey(rJob)
            \/ \E i \in 1 .. Len(qQueue) : AgentJobKey(qQueue[i]) = k)

\* A review job of the PR has run (the agent's reply is on the PR) and given
\* its key back, and the next review job of the same PR was accepted.
C37_Witness ==
    /\ rPc = "idle"
    /\ ghBody[ReplyCid(1)] = "a"
    /\ AgentJobKey(ReviewJob(1, 1, 1)) \in qKeys
    /\ \E i \in 1 .. Len(qQueue) : qQueue[i].kind = "review"

\* The threads whose call is inside process_ticket / process_ticket_review.
InSession == { th \in RunnerThreads : lkPc[th] = "session" }

\* C38: at every moment at most one thread is inside an agent session,
\* ticket or review, however many threads have called _run_one_agent_job;
\* the thread inside is the one that holds _agent_run_lock.
C38_OneSessionAtATime ==
    /\ Cardinality(InSession) <= 1
    /\ \A th \in InSession : lkHolder = th

\* One thread runs a session while every other thread waits for the lock.
C38_Witness ==
    /\ Cardinality(InSession) = 1
    /\ \A th \in RunnerThreads \ InSession : lkPc[th] = "waiting"
    /\ \E th \in RunnerThreads : lkKind[th] = "ticket"
    /\ \E th \in RunnerThreads : lkKind[th] = "review"

\* ------------------------------------------------------------------------
\* Poll passes over a PR whose comments were edited on GitHub since the rows
\* were stored: any row may be addressed, any comment may have a new body
\* ("b") or a timestamp that no longer parses.
InitUpsert ==
    /\ qQueue = <<>> /\ qKeys = {}
    /\ rPc = "off" /\ rJob = NoJob /\ rPosted = FALSE
    /\ tCol = [t \in Tickets |-> "in_review"]
    /\ tPr = [t \in Tickets |-> TRUE]
    /\ ghBody \in [Cids -> {"none", "", "a", "b"}]
    /\ \A c \in Cids : ghBody[c] = "" => CommentEndpoint(c) = "reviews"
    /\ ghTs \in [Cids -> 0 .. 3]
    /\ \A c \in Cids : ghTs[c] \in {0, CommentTs(c)}
    /\ ghTs[ReplyCid(1)] = CommentTs(ReplyCid(1))
    /\ rows \in [Cids -> UNION { StoredRows(c, CommentTs(c)) : c \in Cids }]
    /\ \A c \in Cids : rows[c] \in StoredRows(c, CommentTs(c))
    /\ \A c \in Cids : ghBody[c] = "none" => rows[c] = NoRow
    /\ ghState = [t \in Tickets |-> "open"]
    /\ pPc = "idle" /\ pLogin = FALSE /\ pTodo = {} /\ pCur = 0 /\ pNext = 0
    /\ pEnq = FALSE /\ pWrote = FALSE /\ pFault = FALSE /\ pTaint = "no"
    /\ gPrev = [t \in Tickets |-> "none"] /\ gEnq = {}
    /\ nGh = 0

InitSpecUpsert == InitUpsert /\ IdleCompact /\ IdleCoord /\ IdleSess /\ IdleStore /\ IdleDir /\ IdleFetch /\ IdleWork /\ IdleRun /\ IdlePatch /\ IdleLock

SpecUpsert == InitSpecUpsert /\ [][NextPoll]_vars

\* C39: no step of a poll pass changes the addressed_at of a row that has
\* one: the upsert rewrites body, author and comment timestamp only, and the
\* marking of the agent's own comments writes rows whose addressed_at is NULL.
C39_AddressedStaysAddressed ==
    [][\A c \in Cids :
         rows[c].addressed_at # 0 => rows'[c].addressed_at = rows[c].addressed_at]_vars

\* A pass has rewritten the body and the timestamp of an addressed reviewer
\* comment from GitHub.
C39_Witness ==
    /\ pPc = "prEnd"
    /\ pWrote
    /\ \E c \in ReviewerCids :
         /\ rows[c].addressed_at # 0
         /\ rows[c].body = "b"
         /\ rows[c].ts = 0

\* C40: a review session that starts on a ticket whose column is not
\* in_review returns from its first check: no worker call, no Director call,
\* no reply generated, no push, no PR comment, no memory call, no history.
C40_ReviewOutsideInReviewDoesNothing ==
    (sKind = "review" /\ sCol # "in_review") =>
        /\ sPc \in {"begin", "done"}
        /\ sPc = "done" => sEnd = "skipped"
        /\ sEffects = {}
        /\ sHist = NoHist
        /\ sMem = NoMem

\* A review session of a ticket already moved to done has ended as skipped.
C40_Witness ==
    /\ sKind = "review"
    /\ sCol = "done"
    /\ sPc = "done"
    /\ sEnd = "skipped"

====
